---- MODULE Spec2Model ----
(***************************************************************************)
(* Model of audio_transcription_demo: the heuristic meeting-minutes        *)
(* summariser of utils.py (_sentence_split, _sentence_score and            *)
(* format_meeting_minutes) and the components around it.  Each component   *)
(* has its variables and its specification; a specification leaves the     *)
(* other components idle.                                                  *)
(*                                                                         *)
(* A Python str is a sequence of one-character strings.  A Python call     *)
(* ends in one of two ways, modelled by the record                         *)
(* [raised |-> <exception name or "none">, value |-> <returned str>].      *)
(***************************************************************************)
EXTENDS Integers, Sequences, FiniteSets

\* one call of format_meeting_minutes: its arguments, where it is, its
\* locals and its outcome
VARIABLES transcript, max_sentences, pc, sentences, scored, top,
          highlights, result, raised

\* the module global _STOPWORDS of utils.py
VARIABLE stopwords

\* the calls of format_meeting_minutes that have returned, oldest first
VARIABLE log

\* the calls of format_meeting_minutes running side by side, one per thread
VARIABLE th

\* the last call of create_recognizer: its arguments and its outcome
VARIABLE made

\* the API process: the entries of the lru_cache around
\* _get_recognizer_cached, least recently used first; the number of
\* recognizers constructed; the temporary files on disk; the number of
\* requests served and the outcome of the last
VARIABLES cache, ninst, disk, reqs, resp

\* an AudioRecorder: its fields _is_recording, _stream and _frames (the
\* number of captured blocks); the input streams of the sound device by
\* number; the WAV files written; where a running start() stands; the calls
\* made so far with their outcomes
VARIABLES is_recording, stream, frames, sd, wavs, rec_pc, rec_log

\* a WhisperTranscriber: its field _model (0 for None, else the number of
\* the load that made it), the loads that succeeded, and the calls of
\* transcribe() with their outcomes
VARIABLES wt_model, wt_loads, wt_log

\* a run of a command-line use case: which one; where run() stands; the
\* TempPaths that get_audio returned, with the calls of cleanup() on each;
\* the files on disk; the exception on its way out; the transcript; what
\* was printed
VARIABLES cli_case, cli_pc, cli_temps, cli_disk, cli_exc, cli_text, cli_out

\* the GUI use case: the record button (state and text), whether the
\* progress bar runs, the status label, the output text, the worker threads
\* it started, and the callbacks posted with root.after
VARIABLES gui_button, gui_progress, gui_status, gui_output, gui_workers,
          gui_after

\* the conversions of the file source: the temporary files on disk, by
\* number, and the calls of get_audio with their outcomes
VARIABLES ff_disk, ff_log

callVars == <<transcript, max_sentences, pc, sentences, scored, top,
              highlights, result, raised>>

apiVars == <<cache, ninst, disk, reqs, resp>>

recVars == <<is_recording, stream, frames, sd, wavs, rec_pc, rec_log>>

wtVars == <<wt_model, wt_loads, wt_log>>

cliVars == <<cli_case, cli_pc, cli_temps, cli_disk, cli_exc, cli_text,
             cli_out>>

guiVars == <<gui_button, gui_progress, gui_status, gui_output, gui_workers,
             gui_after>>

ffVars == <<ff_disk, ff_log>>

\* the components of the GUI and the command line
lateVars == <<wtVars, cliVars, guiVars, ffVars>>

\* the summariser, the factory, the API and the recorder
earlyVars == <<callVars, stopwords, log, th, made, apiVars, recVars>>

\* the components around the summariser
aroundVars == <<made, apiVars, recVars, lateVars>>

vars == <<callVars, stopwords, log, th, aroundVars>>

\* the identifiers of RecognizerName
NameVosk == <<"v", "o", "s", "k">>
NameWhisper == <<"w", "h", "i", "s", "p", "e", "r">>
NameSpeechbrain == <<"s", "p", "e", "e", "c", "h", "b", "r", "a", "i", "n">>
RecognizerNames == {NameVosk, NameWhisper, NameSpeechbrain}

\* create_recognizer has not been called
FactoryIdle == made = [called |-> FALSE]

\* the API process has served no request
ApiIdle ==
    /\ cache = <<>>
    /\ ninst = 0
    /\ disk = {}
    /\ reqs = 0
    /\ resp = [served |-> FALSE]

\* an AudioRecorder as __init__ leaves it, on a device without streams
RecorderIdle ==
    /\ is_recording = FALSE
    /\ stream = 0
    /\ frames = 0
    /\ sd = <<>>
    /\ wavs = {}
    /\ rec_pc = "idle"
    /\ rec_log = <<>>

\* a WhisperTranscriber as __init__ leaves it
TranscriberIdle ==
    /\ wt_model = 0
    /\ wt_loads = 0
    /\ wt_log = <<>>

\* no use case is running
CliIdle ==
    /\ cli_case = "none"
    /\ cli_pc = "done"
    /\ cli_temps = <<>>
    /\ cli_disk = {}
    /\ cli_exc = "none"
    /\ cli_text = <<>>
    /\ cli_out = [what |-> "none", text |-> <<>>]

\* the GUI as __init__ and _setup_ui leave it
GuiIdle ==
    /\ gui_button = [state |-> "normal", text |-> "Start Recording"]
    /\ gui_progress = FALSE
    /\ gui_status = "Ready."
    /\ gui_output = [what |-> "none", text |-> <<>>]
    /\ gui_workers = <<>>
    /\ gui_after = <<>>

\* no file has been converted
ConvertIdle ==
    /\ ff_disk = {}
    /\ ff_log = <<>>

LateIdle == TranscriberIdle /\ CliIdle /\ GuiIdle /\ ConvertIdle

AroundIdle == FactoryIdle /\ ApiIdle /\ RecorderIdle /\ LateIdle

\* no call of format_meeting_minutes is under way outside the threads
CallIdle ==
    /\ transcript = <<>>
    /\ max_sentences = 0
    /\ pc = "idle"
    /\ sentences = <<>>
    /\ scored = <<>>
    /\ top = <<>>
    /\ highlights = <<>>
    /\ result = <<>>
    /\ raised = "none"

\* no call has been logged, no thread runs
CallsIdle == log = <<>>
ThreadsIdle == th = <<>>

\* ------------------------------------------------------------------------
\* Bounds of the model
\* ------------------------------------------------------------------------

\* longest transcript drawn exhaustively from Alphabet
MaxLen == 5

\* largest max_sentences argument
MaxSentences == 3

\* max_sentences ranges down to -NegSentences
NegSentences == 2

\* ------------------------------------------------------------------------
\* Characters
\* ------------------------------------------------------------------------

\* characters str.strip() and str.split() without arguments treat as white
Whitespace == {" ", "\t", "\n", "\r", "\f"}

\* the set literal {".", "?", "!"} of _sentence_split
Terminators == {".", "?", "!"}

\* the argument ".,!?;:()[]" of t.strip(...) in _sentence_score
StripChars == {".", ",", "!", "?", ";", ":", "(", ")", "[", "]"}

UpperCase ==
    <<"A", "B", "C", "D", "E", "F", "G", "H", "I", "J", "K", "L", "M",
      "N", "O", "P", "Q", "R", "S", "T", "U", "V", "W", "X", "Y", "Z">>

LowerCase ==
    <<"a", "b", "c", "d", "e", "f", "g", "h", "i", "j", "k", "l", "m",
      "n", "o", "p", "q", "r", "s", "t", "u", "v", "w", "x", "y", "z">>

\* str.lower() on one character (ASCII letters; the rest is unchanged)
LowerChar(c) ==
    IF \E k \in DOMAIN UpperCase : UpperCase[k] = c
    THEN LowerCase[CHOOSE k \in DOMAIN UpperCase : UpperCase[k] = c]
    ELSE c

\* str.lower()
Lower(s) == [k \in 1..Len(s) |-> LowerChar(s[k])]

STOPWORDS ==
    { <<"t", "h", "e">>,
      <<"a", "n", "d">>,
      <<"a">>,
      <<"a", "n">>,
      <<"o", "f">>,
      <<"t", "o">>,
      <<"i", "n">>,
      <<"i", "s">>,
      <<"i", "t">>,
      <<"t", "h", "a", "t">>,
      <<"f", "o", "r">>,
      <<"o", "n">>,
      <<"w", "i", "t", "h">>,
      <<"a", "s">>,
      <<"t", "h", "i", "s">>,
      <<"b", "y">>,
      <<"a", "t">>,
      <<"f", "r", "o", "m">>,
      <<"o", "r">>,
      <<"b", "e">>,
      <<"a", "r", "e">>,
      <<"w", "a", "s">>,
      <<"w", "e", "r", "e">>,
      <<"h", "a", "s">>,
      <<"h", "a", "v", "e">>,
      <<"h", "a", "d">>,
      <<"w", "e">>,
      <<"y", "o", "u">>,
      <<"t", "h", "e", "y">>,
      <<"i">> }

\* ------------------------------------------------------------------------
\* The literals of format_meeting_minutes
\* ------------------------------------------------------------------------

\* "No content to summarise."
FALLBACK ==
    <<"N", "o", " ", "c", "o", "n", "t", "e", "n", "t", " ", "t", "o", " ",
    "s", "u", "m", "m", "a", "r", "i", "s", "e", ".">>

\* "# Meeting minutes\n"
TitleLine ==
    <<"#", " ", "M", "e", "e", "t", "i", "n", "g", " ", "m", "i", "n", "u",
    "t", "e", "s", "\n">>

\* "## Key points\n"
KeyPointsLine ==
    <<"#", "#", " ", "K", "e", "y", " ", "p", "o", "i", "n", "t", "s", "\n">>

\* "\n## Action items (heuristic)\n"
ActionItemsLine ==
    <<"\n", "#", "#", " ", "A", "c", "t", "i", "o", "n", " ", "i", "t", "e",
    "m", "s", " ", "(", "h", "e", "u", "r", "i", "s", "t", "i", "c", ")",
    "\n">>

\* "_Auto-generated from important sentences; add owners/dates manually._\n"
NoteLine ==
    <<"_", "A", "u", "t", "o", "-", "g", "e", "n", "e", "r", "a", "t", "e",
    "d", " ", "f", "r", "o", "m", " ", "i", "m", "p", "o", "r", "t", "a",
    "n", "t", " ", "s", "e", "n", "t", "e", "n", "c", "e", "s", ";", " ",
    "a", "d", "d", " ", "o", "w", "n", "e", "r", "s", "/", "d", "a", "t",
    "e", "s", " ", "m", "a", "n", "u", "a", "l", "l", "y", ".", "_", "\n">>

\* the prefix of f"- {s}"
BulletPrefix ==
    <<"-", " ">>

\* the prefix of f"- [ ] (Owner?) {s}"
CheckPrefix ==
    <<"-", " ", "[", " ", "]", " ", "(", "O", "w", "n", "e", "r", "?", ")",
    " ">>

\* ------------------------------------------------------------------------
\* str helpers
\* ------------------------------------------------------------------------

\* s[a..b] (1-based, inclusive), empty when a > b
Sub(s, a, b) == [k \in 1..(b - a + 1) |-> s[a + k - 1]]

\* str.strip(chars): drop the leading and the trailing characters in chars
StripSet(s, chars) ==
    LET keep == {k \in 1..Len(s) : s[k] \notin chars}
    IN  IF keep = {} THEN <<>>
        ELSE LET lo == CHOOSE k \in keep : \A m \in keep : k <= m
                 hi == CHOOSE k \in keep : \A m \in keep : k >= m
             IN  Sub(s, lo, hi)

\* str.strip()
Strip(s) == StripSet(s, Whitespace)

\* str.split(): the maximal runs of non-whitespace characters, in order
RECURSIVE SplitFrom(_, _, _, _)
SplitFrom(s, k, word, acc) ==
    IF k > Len(s)
    THEN IF word # <<>> THEN Append(acc, word) ELSE acc
    ELSE IF s[k] \in Whitespace
         THEN SplitFrom(s, k + 1, <<>>,
                        IF word # <<>> THEN Append(acc, word) ELSE acc)
         ELSE SplitFrom(s, k + 1, Append(word, s[k]), acc)

Split(s) == SplitFrom(s, 1, <<>>, <<>>)

\* sep.join(parts)
RECURSIVE Join(_, _)
Join(sep, parts) ==
    IF parts = <<>> THEN <<>>
    ELSE IF Len(parts) = 1 THEN parts[1]
    ELSE parts[1] \o sep \o Join(sep, Tail(parts))

\* ------------------------------------------------------------------------
\* _sentence_split
\* ------------------------------------------------------------------------

\* the for loop of _sentence_split from character k on, with the loop's
\* buf and out; yields buf and out as the loop leaves them
\* the loop with the terminator test ahead of buf.append(ch): the terminator
\* opens the next sentence instead of closing this one
RECURSIVE SplitLoopLate(_, _, _, _)
SplitLoopLate(text, k, buf, out) ==
    IF k > Len(text) THEN [buf |-> buf, out |-> out]
    ELSE LET ch == text[k]
         IN  IF ch \in Terminators
             THEN LET s == Strip(buf)
                  IN  SplitLoopLate(text, k + 1, <<ch>>,
                                    IF s # <<>> THEN Append(out, s) ELSE out)
             ELSE SplitLoopLate(text, k + 1, Append(buf, ch), out)

RECURSIVE SplitLoop(_, _, _, _)
SplitLoop(text, k, buf, out) ==
    IF k > Len(text) THEN [buf |-> buf, out |-> out]
    ELSE LET ch == text[k]
             b  == Append(buf, ch)
         IN  IF ch \in Terminators
             THEN LET s == Strip(b)
                  IN  SplitLoop(text, k + 1, <<>>,
                                IF s # <<>> THEN Append(out, s) ELSE out)
             ELSE SplitLoop(text, k + 1, b, out)

\* _sentence_split without the `if s:` test on the trailing buffer
sentence_split_keep_empty(text) ==
    LET r == SplitLoop(text, 1, <<>>, <<>>)
    IN  IF r.buf # <<>> THEN Append(r.out, Strip(r.buf)) ELSE r.out

\* _sentence_split with the trailing buffer appended as it is, not stripped
sentence_split_unstripped(text) ==
    LET r == SplitLoop(text, 1, <<>>, <<>>)
    IN  IF r.buf # <<>>
        THEN IF Strip(r.buf) # <<>> THEN Append(r.out, r.buf) ELSE r.out
        ELSE r.out

\* _sentence_split without the `if buf:` block after the loop
sentence_split_drop_tail(text) == SplitLoop(text, 1, <<>>, <<>>).out

\* _sentence_split that gives the sentences without their terminators
sentence_split_bare(text) ==
    LET r == SplitLoop(text, 1, <<>>, <<>>)
        all == IF r.buf # <<>> /\ Strip(r.buf) # <<>>
               THEN Append(r.out, Strip(r.buf))
               ELSE r.out
    IN  [k \in 1..Len(all) |-> StripSet(all[k], Terminators)]

sentence_split(text) ==
    LET r == SplitLoop(text, 1, <<>>, <<>>)
    IN  IF r.buf # <<>>
        THEN LET s == Strip(r.buf)
             IN  IF s # <<>> THEN Append(r.out, s) ELSE r.out
        ELSE r.out

\* ------------------------------------------------------------------------
\* _sentence_score
\* ------------------------------------------------------------------------

\* _sentence_score without .lower(): "The" is no stop word
sentence_score_cased(sentence) ==
    LET words  == Split(sentence)
        tokens == [k \in 1..Len(words) |-> StripSet(words[k], StripChars)]
    IN  Cardinality({k \in 1..Len(tokens) :
                        tokens[k] # <<>> /\ tokens[k] \notin stopwords})

\* the score is float(len(tokens)): a whole number, kept as an integer
sentence_score(sentence) ==
    LET words  == Split(sentence)
        tokens == [k \in 1..Len(words) |-> Lower(StripSet(words[k], StripChars))]
    IN  Cardinality({k \in 1..Len(tokens) :
                        tokens[k] # <<>> /\ tokens[k] \notin stopwords})

\* ------------------------------------------------------------------------
\* list helpers
\* ------------------------------------------------------------------------

\* the entries of a scored tuple (i, s, score)
Idx(x) == x[1]
Text(x) == x[2]
Score(x) == x[3]

\* the sort without reverse=True
RECURSIVE SortByScoreAsc(_)
SortByScoreAsc(l) ==
    IF l = <<>> THEN <<>>
    ELSE LET done == SortByScoreAsc(SubSeq(l, 1, Len(l) - 1))
             e    == l[Len(l)]
             p    == Cardinality({k \in 1..Len(done) : Score(done[k]) <= Score(e)})
         IN  SubSeq(done, 1, p) \o <<e>> \o SubSeq(done, p + 1, Len(done))

\* a descending sort that puts the later of two equal scores first, as
\* sorting ascending and reversing the list does
RECURSIVE SortByScoreDescTiesReversed(_)
SortByScoreDescTiesReversed(l) ==
    IF l = <<>> THEN <<>>
    ELSE LET done == SortByScoreDescTiesReversed(SubSeq(l, 1, Len(l) - 1))
             e    == l[Len(l)]
             p    == Cardinality({k \in 1..Len(done) : Score(done[k]) > Score(e)})
         IN  SubSeq(done, 1, p) \o <<e>> \o SubSeq(done, p + 1, Len(done))

\* list.sort(key=lambda x: x[2], reverse=True): the sort is stable, and with
\* reverse=True equal keys still keep their original relative order
RECURSIVE SortByScoreDesc(_)
SortByScoreDesc(l) ==
    IF l = <<>> THEN <<>>
    ELSE LET done == SortByScoreDesc(SubSeq(l, 1, Len(l) - 1))
             e    == l[Len(l)]
             p    == Cardinality({k \in 1..Len(done) : Score(done[k]) >= Score(e)})
         IN  SubSeq(done, 1, p) \o <<e>> \o SubSeq(done, p + 1, Len(done))

\* the selection left in score order: top.sort(...) missing
SortByIdxMissing(l) == l

\* list.sort(key=lambda x: x[0]): stable, ascending
RECURSIVE SortByIdx(_)
SortByIdx(l) ==
    IF l = <<>> THEN <<>>
    ELSE LET done == SortByIdx(SubSeq(l, 1, Len(l) - 1))
             e    == l[Len(l)]
             p    == Cardinality({k \in 1..Len(done) : Idx(done[k]) <= Idx(e)})
         IN  SubSeq(done, 1, p) \o <<e>> \o SubSeq(done, p + 1, Len(done))

\* the end of the slice l[:stop]: a negative stop counts from the end of the
\* list, and the result is clamped to 0..len(l)
SliceStop(len, stop) ==
    IF stop < 0
    THEN (IF stop + len < 0 THEN 0 ELSE stop + len)
    ELSE (IF stop > len THEN len ELSE stop)

\* the slice one entry short: l[:stop - 1]
SliceToShort(l, stop) == SubSeq(l, 1, SliceStop(Len(l), stop - 1))

\* l[:stop]
SliceTo(l, stop) == SubSeq(l, 1, SliceStop(Len(l), stop))

\* ------------------------------------------------------------------------
\* format_meeting_minutes
\* ------------------------------------------------------------------------

\* the checklist loop skipping the first highlight
LinesShortChecklist(hl) ==
    <<TitleLine, KeyPointsLine>>
    \o [k \in 1..Len(hl) |-> BulletPrefix \o hl[k]]
    \o <<ActionItemsLine, NoteLine>>
    \o [k \in 1..(Len(hl) - 1) |-> CheckPrefix \o hl[k + 1]]

\* the list `lines` built from the highlights
Lines(hl) ==
    <<TitleLine, KeyPointsLine>>
    \o [k \in 1..Len(hl) |-> BulletPrefix \o hl[k]]
    \o <<ActionItemsLine, NoteLine>>
    \o [k \in 1..Len(hl) |-> CheckPrefix \o hl[k]]

\* the selection written as [scored[i] for i in range(max_sentences)]: the
\* index runs past the list when max_sentences exceeds the sentence count
format_meeting_minutes_indexed(t, n) ==
    LET ss == sentence_split(t)
        sc == SortByScoreDesc(
                  [k \in 1..Len(ss) |-> <<k - 1, ss[k], sentence_score(ss[k])>>])
        tp == SortByIdx(SubSeq(sc, 1, n))
        hl == [k \in 1..Len(tp) |-> Text(tp[k])]
    IN  IF ss = <<>>
        THEN [raised |-> "none", value |-> FALLBACK, sentences |-> ss,
              scored |-> <<>>, top |-> <<>>, highlights |-> <<>>]
        ELSE IF n > Len(sc)
        THEN [raised |-> "IndexError", value |-> <<>>, sentences |-> ss,
              scored |-> sc, top |-> <<>>, highlights |-> <<>>]
        ELSE IF hl = <<>>
        THEN [raised |-> "none", value |-> FALLBACK, sentences |-> ss,
              scored |-> sc, top |-> tp, highlights |-> hl]
        ELSE [raised |-> "none", value |-> Join(<<"\n">>, Lines(hl)),
              sentences |-> ss, scored |-> sc, top |-> tp, highlights |-> hl]

\* the outcome of one call, with the locals as the call leaves them (a local
\* the call never assigned is the empty list)
format_meeting_minutes(t, n) ==
    LET ss == sentence_split(t)
        sc == SortByScoreDesc(
                  [k \in 1..Len(ss) |-> <<k - 1, ss[k], sentence_score(ss[k])>>])
        tp == SortByIdx(SliceTo(sc, n))
        hl == [k \in 1..Len(tp) |-> Text(tp[k])]
    IN  IF ss = <<>>
        THEN [raised |-> "none", value |-> FALLBACK, sentences |-> ss,
              scored |-> <<>>, top |-> <<>>, highlights |-> <<>>]
        ELSE IF hl = <<>>
        THEN [raised |-> "none", value |-> FALLBACK, sentences |-> ss,
              scored |-> sc, top |-> tp, highlights |-> hl]
        ELSE [raised |-> "none", value |-> Join(<<"\n">>, Lines(hl)),
              sentences |-> ss, scored |-> sc, top |-> tp, highlights |-> hl]

\* ------------------------------------------------------------------------
\* The calls
\* ------------------------------------------------------------------------

\* the characters the transcripts are drawn from exhaustively: a content
\* word, a stop word, whitespace, a terminator and inner punctuation
Alphabet == {"x", "a", " ", ".", ","}

\* the transcripts the specification names
ExHello ==
    <<"H", "e", "l", "l", "o", " ", "w", "o", "r", "l", "d">>

ExTest ==
    <<"T", "h", "i", "s", " ", "i", "s", " ", "a", " ", "t", "e", "s", "t",
    ".", " ", "I", "t", " ", "w", "o", "r", "k", "s", " ", "w", "e", "l",
    "l", ".", " ", "S", "h", "o", "r", "t", ".">>

ExStop ==
    <<"T", "h", "e", " ", "i", "t", " ", "i", "s", " ", "a">>

ExABC ==
    <<"A", ".", " ", "B", "!", " ", "C", "?">>

ExDots ==
    <<".", ".", ".">>

ExWait ==
    <<"W", "a", "i", "t", ".", ".", ".", " ", "g", "o", ".">>

\* "Ok, fine?\n\tWe go (now)!": every kind of character the code tells apart
ExMixed ==
    <<"O", "k", ",", " ", "f", "i", "n", "e", "?", "\n", "\t", "W", "e", " ",
    "g", "o", " ", "(", "n", "o", "w", ")", "!">>

Examples == {ExHello, ExTest, ExStop, ExABC, ExDots, ExWait, ExMixed}

Transcripts ==
    UNION {[1..len -> Alphabet] : len \in 0..MaxLen} \cup Examples

Init ==
    /\ transcript \in Transcripts
    /\ max_sentences \in (0 - NegSentences)..MaxSentences
    /\ pc = "called"
    /\ sentences = <<>>
    /\ scored = <<>>
    /\ top = <<>>
    /\ highlights = <<>>
    /\ result = <<>>
    /\ raised = "none"
    /\ stopwords = STOPWORDS
    /\ CallsIdle
    /\ ThreadsIdle
    /\ AroundIdle

\* the words of a list of sentences, stripped and lower-cased as the scorer
\* does
WordsOf(l) ==
    UNION {{Lower(StripSet(Split(l[k])[w], StripChars)) :
               w \in 1..Len(Split(l[k]))} : k \in 1..Len(l)}

\* a call that remembers the words it has seen by adding them to _STOPWORDS
FormatMeetingMinutesLearning ==
    /\ pc = "called"
    /\ LET r == format_meeting_minutes(transcript, max_sentences)
       IN  /\ sentences' = r.sentences
           /\ scored' = r.scored
           /\ top' = r.top
           /\ highlights' = r.highlights
           /\ result' = r.value
           /\ raised' = r.raised
           /\ stopwords' = stopwords \cup WordsOf(r.sentences)
    /\ pc' = "returned"
    /\ UNCHANGED <<transcript, max_sentences, log, th, aroundVars>>

\* one call format_meeting_minutes(transcript, max_sentences), start to end
FormatMeetingMinutes ==
    /\ pc = "called"
    /\ LET r == format_meeting_minutes(transcript, max_sentences)
       IN  /\ sentences' = r.sentences
           /\ scored' = r.scored
           /\ top' = r.top
           /\ highlights' = r.highlights
           /\ result' = r.value
           /\ raised' = r.raised
    /\ pc' = "returned"
    /\ UNCHANGED <<transcript, max_sentences, stopwords, log, th, aroundVars>>

\* ------------------------------------------------------------------------
\* The calls that exercise the scorer: short transcripts over letters of
\* both cases, stop words among them ("a", "at"), and punctuation
\* ------------------------------------------------------------------------

\* longest transcript of the scorer's calls
MaxScoreLen == 4

ScoreAlphabet == {"a", "A", "t", "x", " ", ",", "("}

ScoreTranscripts ==
    UNION {[1..len -> ScoreAlphabet] : len \in 0..MaxScoreLen} \cup Examples

InitScore ==
    /\ transcript \in ScoreTranscripts
    /\ max_sentences \in 1..2
    /\ pc = "called"
    /\ sentences = <<>>
    /\ scored = <<>>
    /\ top = <<>>
    /\ highlights = <<>>
    /\ result = <<>>
    /\ raised = "none"
    /\ stopwords = STOPWORDS
    /\ CallsIdle
    /\ ThreadsIdle
    /\ AroundIdle

\* ------------------------------------------------------------------------
\* A sequence of calls, one after the other
\* ------------------------------------------------------------------------

\* the number of calls after the first
MaxCalls == 2

\* "a. x. x x.": three sentences scoring 0, 1 and 2
ExRanked ==
    <<"a", ".", " ", "x", ".", " ", "x", " ", "x", ".">>

CallTranscripts == {<<>>, ExHello, ExTest, ExStop, ExRanked}

InitCalls ==
    /\ transcript \in CallTranscripts
    /\ max_sentences \in 1..2
    /\ pc = "called"
    /\ sentences = <<>>
    /\ scored = <<>>
    /\ top = <<>>
    /\ highlights = <<>>
    /\ result = <<>>
    /\ raised = "none"
    /\ stopwords = STOPWORDS
    /\ CallsIdle
    /\ ThreadsIdle
    /\ AroundIdle

\* the caller takes the outcome of the call that returned and calls again,
\* with new arguments and fresh locals
CallAgain(t, n) ==
    /\ pc = "returned"
    /\ Len(log) < MaxCalls
    /\ log' = Append(log, [transcript |-> transcript,
                           max_sentences |-> max_sentences,
                           raised |-> raised,
                           result |-> result])
    /\ transcript' = t
    /\ max_sentences' = n
    /\ pc' = "called"
    /\ sentences' = <<>>
    /\ scored' = <<>>
    /\ top' = <<>>
    /\ highlights' = <<>>
    /\ result' = <<>>
    /\ raised' = "none"
    /\ UNCHANGED <<stopwords, th, aroundVars>>

NextCalls ==
    \/ FormatMeetingMinutes
    \/ \E t \in CallTranscripts : \E n \in 1..2 : CallAgain(t, n)

\* ------------------------------------------------------------------------
\* Calls side by side: each thread runs format_meeting_minutes on its own
\* arguments and locals, a statement group at a time; _STOPWORDS is the one
\* object the threads share
\* ------------------------------------------------------------------------

\* the number of threads
NumThreads == 2

Threads == 1..NumThreads

ThreadTranscripts == {ExHello, ExRanked, <<" ">>}

\* a thread that has been handed its arguments
ThreadCalled(t, n) ==
    [transcript |-> t, max_sentences |-> n, pc |-> "called",
     sentences |-> <<>>, scored |-> <<>>, top |-> <<>>, highlights |-> <<>>,
     result |-> <<>>]

InitThreads ==
    /\ th \in [Threads -> {ThreadCalled(t, n) :
                              t \in ThreadTranscripts, n \in 0..2}]
    /\ stopwords = STOPWORDS
    /\ CallsIdle
    /\ CallIdle
    /\ AroundIdle

\* sentences = _sentence_split(transcript), and the first return
ThSplit(i) ==
    /\ th[i].pc = "called"
    /\ LET ss == sentence_split(th[i].transcript)
       IN  th' = [th EXCEPT ![i].sentences = ss,
                            ![i].result = IF ss = <<>> THEN FALLBACK ELSE <<>>,
                            ![i].pc = IF ss = <<>> THEN "returned"
                                      ELSE "scoring"]
    /\ UNCHANGED <<callVars, stopwords, log, aroundVars>>

\* the scoring that also adds the words it has seen to _STOPWORDS
ThScoreLearning(i) ==
    /\ th[i].pc = "scoring"
    /\ LET ss == th[i].sentences
       IN  th' = [th EXCEPT
                  ![i].scored = SortByScoreDesc(
                      [k \in 1..Len(ss) |->
                          <<k - 1, ss[k], sentence_score(ss[k])>>]),
                  ![i].pc = "selecting"]
    /\ stopwords' = stopwords \cup WordsOf(th[i].sentences)
    /\ UNCHANGED <<callVars, log, aroundVars>>

\* scored = [(i, s, _sentence_score(s)) ...]; scored.sort(...): the scorer
\* reads _STOPWORDS
ThScore(i) ==
    /\ th[i].pc = "scoring"
    /\ LET ss == th[i].sentences
       IN  th' = [th EXCEPT
                  ![i].scored = SortByScoreDesc(
                      [k \in 1..Len(ss) |->
                          <<k - 1, ss[k], sentence_score(ss[k])>>]),
                  ![i].pc = "selecting"]
    /\ UNCHANGED <<callVars, stopwords, log, aroundVars>>

\* top = scored[:max_sentences]; top.sort(...); highlights; the second return
ThSelect(i) ==
    /\ th[i].pc = "selecting"
    /\ LET tp == SortByIdx(SliceTo(th[i].scored, th[i].max_sentences))
           hl == [k \in 1..Len(tp) |-> Text(tp[k])]
       IN  th' = [th EXCEPT ![i].top = tp,
                            ![i].highlights = hl,
                            ![i].result = IF hl = <<>> THEN FALLBACK ELSE <<>>,
                            ![i].pc = IF hl = <<>> THEN "returned"
                                      ELSE "rendering"]
    /\ UNCHANGED <<callVars, stopwords, log, aroundVars>>

\* the lines, and return "\n".join(lines)
ThRender(i) ==
    /\ th[i].pc = "rendering"
    /\ th' = [th EXCEPT ![i].result = Join(<<"\n">>, Lines(th[i].highlights)),
                        ![i].pc = "returned"]
    /\ UNCHANGED <<callVars, stopwords, log, aroundVars>>

NextThreads ==
    \E i \in Threads : ThSplit(i) \/ ThScore(i) \/ ThSelect(i) \/ ThRender(i)

\* ------------------------------------------------------------------------
\* Exceptions
\* ------------------------------------------------------------------------

\* the class an exception class derives from: the built-in ones, the three
\* of utils.py (all RuntimeError) and fastapi.HTTPException
BaseOf ==
    [c \in {"Exception", "RuntimeError", "OSError", "ImportError",
            "ValueError", "ModuleNotFoundError", "FileNotFoundError",
            "PermissionError", "ConfigurationError", "AudioProcessingError",
            "BackendNotAvailableError", "HTTPException"} |->
        CASE c = "Exception" -> "BaseException"
          [] c \in {"RuntimeError", "OSError", "ImportError", "ValueError",
                    "HTTPException"} -> "Exception"
          [] c = "ModuleNotFoundError" -> "ImportError"
          [] c \in {"FileNotFoundError", "PermissionError"} -> "OSError"
          [] c \in {"ConfigurationError", "AudioProcessingError",
                    "BackendNotAvailableError"} -> "RuntimeError"]

\* an exception of class c is caught by `except cls`
RECURSIVE IsInstance(_, _)
IsInstance(c, cls) ==
    \/ c = cls
    \/ c \in DOMAIN BaseOf /\ IsInstance(BaseOf[c], cls)

\* ------------------------------------------------------------------------
\* create_recognizer
\* ------------------------------------------------------------------------

\* what the constructor of a backend does: it returns, or it raises
CtorOutcomes ==
    {"ok", "ImportError", "ModuleNotFoundError", "ConfigurationError",
     "RuntimeError"}

\* the try block around one constructor call: the instance, or the
\* exception that leaves create_recognizer
Construct(cls, ctor) ==
    IF ctor = "ok"
    THEN [raised |-> "none", value |-> cls, ran |-> cls]
    ELSE IF IsInstance(ctor, "ImportError")
    THEN [raised |-> "BackendNotAvailableError", value |-> "None", ran |-> cls]
    ELSE [raised |-> ctor, value |-> "None", ran |-> cls]

\* create_recognizer comparing the name as it was given
create_recognizer_unnormalised(name, ctor) ==
    LET key == name
    IN  IF key = NameVosk THEN Construct("VoskSpeechRecognizer", ctor)
        ELSE IF key = NameWhisper
        THEN Construct("WhisperSpeechRecognizer", ctor)
        ELSE IF key = NameSpeechbrain
        THEN Construct("SpeechBrainSpeechRecognizer", ctor)
        ELSE [raised |-> "ValueError", value |-> "None", ran |-> "none"]

\* create_recognizer(name), the constructor it calls behaving as ctor says
create_recognizer(name, ctor) ==
    LET key == Lower(Strip(name))
    IN  IF key = NameVosk THEN Construct("VoskSpeechRecognizer", ctor)
        ELSE IF key = NameWhisper
        THEN Construct("WhisperSpeechRecognizer", ctor)
        ELSE IF key = NameSpeechbrain
        THEN Construct("SpeechBrainSpeechRecognizer", ctor)
        ELSE [raised |-> "ValueError", value |-> "None", ran |-> "none"]

\* the names create_recognizer is called with: the three identifiers and
\* five others, in both cases, with and without whitespace around them
UpperChar(c) ==
    IF \E k \in DOMAIN LowerCase : LowerCase[k] = c
    THEN UpperCase[CHOOSE k \in DOMAIN LowerCase : LowerCase[k] = c]
    ELSE c

Upper(s) == [k \in 1..Len(s) |-> UpperChar(s[k])]

BaseNames ==
    RecognizerNames
    \cup {<<>>, <<"k", "a", "l", "d", "i">>, <<"v", "o", "s", "k", "2">>,
          <<"v", "o", " ", "s", "k">>,
          <<"w", "h", "i", "s", "p", "e", "r", "x">>}

FactoryNames ==
    {front \o body \o back :
        front \in {<<>>, <<" ">>},
        body \in BaseNames \cup {Upper(b) : b \in BaseNames},
        back \in {<<>>, <<"\n">>, <<" ", "\t">>}}

InitFactory ==
    /\ FactoryIdle
    /\ ApiIdle
    /\ RecorderIdle
    /\ CallIdle
    /\ CallsIdle
    /\ ThreadsIdle
    /\ LateIdle
    /\ stopwords = STOPWORDS

\* the call create_recognizer(name) of one run of main()
CreateRecognizer(name, ctor) ==
    /\ ~made.called
    /\ LET r == create_recognizer(name, ctor)
       IN  made' = [called |-> TRUE, name |-> name, ctor |-> ctor,
                    raised |-> r.raised, value |-> r.value, ran |-> r.ran]
    /\ UNCHANGED <<callVars, stopwords, log, th, apiVars, recVars, lateVars>>

NextFactory ==
    \E name \in FactoryNames : \E ctor \in CtorOutcomes :
        CreateRecognizer(name, ctor)

\* ------------------------------------------------------------------------
\* The API: _get_recognizer_cached and the three use-case endpoints
\* ------------------------------------------------------------------------

\* the number of requests the API process serves
MaxRequests == 3

\* @lru_cache(maxsize=8)
LruMaxSize == 8

\* the place of a key in the cache, 0 when it is not there
LruIndex(c, key) ==
    IF \E k \in 1..Len(c) : c[k].key = key
    THEN CHOOSE k \in 1..Len(c) : c[k].key = key
    ELSE 0

\* the cache after a hit at place k: the entry becomes the most recent
LruTouch(c, k) ==
    SubSeq(c, 1, k - 1) \o SubSeq(c, k + 1, Len(c)) \o <<c[k]>>

\* a cache with room for the most recent entry only
LruInsertSingle(c, key, value) == <<[key |-> key, value |-> value]>>

\* the cache after a miss: the new entry is the most recent, and the least
\* recent one makes room when the cache is full
LruInsert(c, key, value) ==
    (IF Len(c) >= LruMaxSize THEN Tail(c) ELSE c)
    \o <<[key |-> key, value |-> value]>>

\* _get_recognizer_cached(name): the outcome, whether create_recognizer was
\* called, and the state it leaves; a call that raises is not cached
get_recognizer_cached(name, ctor) ==
    LET k == LruIndex(cache, name)
        r == create_recognizer(name, ctor)
        obj == [cls |-> r.value, id |-> ninst + 1]
    IN  IF k # 0
        THEN [raised |-> "none", value |-> cache[k].value,
              cache |-> LruTouch(cache, k), created |-> FALSE,
              ninst |-> ninst]
        ELSE IF r.raised # "none"
        THEN [raised |-> r.raised, value |-> "None", cache |-> cache,
              created |-> TRUE, ninst |-> ninst]
        ELSE [raised |-> "none", value |-> obj,
              cache |-> LruInsert(cache, name, obj),
              created |-> TRUE, ninst |-> ninst + 1]

\* what an upload is: without a filename, empty, or audio
Uploads == {"nofilename", "empty", "audio"}

\* _save_upload_to_temp(file), the new file being number f: the exception
\* or the path, and the files it leaves on disk; the file is created with
\* delete=False before the content is read
save_upload_to_temp(file, f) ==
    IF file = "nofilename"
    THEN [raised |-> "HTTPException", status |-> 400, path |-> 0,
          disk |-> disk]
    ELSE IF file = "empty"
    THEN [raised |-> "HTTPException", status |-> 400, path |-> 0,
          disk |-> disk \cup {f}]
    ELSE [raised |-> "none", status |-> 0, path |-> f, disk |-> disk \cup {f}]

\* _safe_unlink(path) on a disk d: path.unlink(missing_ok=True)
safe_unlink(d, path) == d \ {path}

\* what stt.transcribe_any(tmp_path) does: a transcript, or an exception
TranscribeOutcomes ==
    {[raised |-> "none", text |-> ExHello]}
    \cup {[raised |-> e, text |-> <<>>] :
             e \in {"FileNotFoundError", "AudioProcessingError",
                    "RuntimeError"}}

\* what the constructor of a backend does in the API process
ApiCtorOutcomes == {"ok", "ImportError", "ConfigurationError"}

\* the detail of the last except clause, by endpoint
FailedPrefix(endpoint) ==
    CASE endpoint = "transcribe" -> "Transcription failed: "
      [] endpoint = "live-transcribe" -> "Live transcription failed: "
      [] endpoint = "meeting-minutes" -> "Meeting minutes failed: "

\* except clauses that begin with the catch-all
ExceptClausesCatchAllFirst(endpoint, exc) ==
    IF IsInstance(exc, "Exception")
    THEN [kind |-> "HTTPException", status |-> 500,
          detail |-> FailedPrefix(endpoint)]
    ELSE [kind |-> "raw", status |-> 0, detail |-> "none"]

\* the except clauses of an endpoint, in their order, for an exception of
\* class exc raised in the try block
ExceptClauses(endpoint, exc) ==
    IF IsInstance(exc, "BackendNotAvailableError")
    THEN [kind |-> "HTTPException", status |-> 500, detail |-> "str(exc)"]
    ELSE IF IsInstance(exc, "FileNotFoundError")
            \/ IsInstance(exc, "AudioProcessingError")
    THEN [kind |-> "HTTPException", status |-> 400, detail |-> "str(exc)"]
    ELSE IF IsInstance(exc, "Exception")
    THEN [kind |-> "HTTPException", status |-> 500,
          detail |-> FailedPrefix(endpoint)]
    ELSE [kind |-> "raw", status |-> 0, detail |-> "none"]

\* the inputs of a request that no statement reads are left at one value: the
\* constructor when the upload is refused or the cache holds the name, the
\* transcription when the recognizer is not to be had
Relevant(file, name, ctor, trans) ==
    /\ file # "audio" \/ LruIndex(cache, name) # 0 => ctor = "ok"
    /\ file # "audio" \/ ctor # "ok" => trans.raised = "none"

\* the body shared by the three endpoints: save the upload; in the try block
\* get the recognizer, transcribe and, for the minutes, summarise; turn an
\* exception into an HTTPException; unlink the temporary file in any case
Endpoint(endpoint, file, name, n, ctor, trans) ==
    /\ reqs < MaxRequests
    /\ Relevant(file, name, ctor, trans)
    /\ reqs' = reqs + 1
    /\ LET up == save_upload_to_temp(file, reqs + 1)
           g  == get_recognizer_cached(name, ctor)
           exc == IF g.raised # "none" THEN g.raised ELSE trans.raised
           h  == ExceptClauses(endpoint, exc)
       IN  IF up.raised # "none"
           THEN /\ disk' = up.disk
                /\ resp' = [served |-> TRUE, endpoint |-> endpoint,
                            recognizer |-> name, saved |-> FALSE,
                            kind |-> "HTTPException", status |-> up.status,
                            detail |-> "upload", cause |-> "none",
                            stt |-> "None", created |-> FALSE,
                            minutes |-> <<>>]
                /\ UNCHANGED <<cache, ninst>>
           ELSE /\ cache' = g.cache
                /\ ninst' = g.ninst
                /\ disk' = safe_unlink(up.disk, up.path)
                /\ resp' =
                     IF exc # "none"
                     THEN [served |-> TRUE, endpoint |-> endpoint,
                           recognizer |-> name, saved |-> TRUE,
                           kind |-> h.kind, status |-> h.status,
                           detail |-> h.detail, cause |-> exc,
                           stt |-> g.value, created |-> g.created,
                           minutes |-> <<>>]
                     ELSE [served |-> TRUE, endpoint |-> endpoint,
                           recognizer |-> name, saved |-> TRUE,
                           kind |-> "response", status |-> 200,
                           detail |-> "none", cause |-> "none",
                           stt |-> g.value, created |-> g.created,
                           minutes |->
                               IF endpoint = "meeting-minutes"
                               THEN format_meeting_minutes(trans.text, n).value
                               ELSE <<>>]
    /\ UNCHANGED <<callVars, stopwords, log, th, made, recVars, lateVars>>

\* POST /use-cases/transcribe
use_case_transcribe(file, name, ctor, trans) ==
    Endpoint("transcribe", file, name, 0, ctor, trans)

\* POST /use-cases/live-transcribe
use_case_live_transcribe_chunk(file, name, ctor, trans) ==
    Endpoint("live-transcribe", file, name, 0, ctor, trans)

\* POST /use-cases/meeting-minutes, max_sentences within ge=1, le=20
use_case_meeting_minutes(file, name, n, ctor, trans) ==
    Endpoint("meeting-minutes", file, name, n, ctor, trans)

\* a request whose recognizer is not one of RecognizerName, or whose
\* max_sentences is outside 1..20, is answered 422 before any endpoint runs
RejectRequest(endpoint) ==
    /\ reqs < MaxRequests
    /\ reqs' = reqs + 1
    /\ resp' = [served |-> TRUE, endpoint |-> endpoint,
                recognizer |-> Upper(NameWhisper), saved |-> FALSE,
                kind |-> "validation", status |-> 422, detail |-> "none",
                cause |-> "none", stt |-> "None", created |-> FALSE,
                minutes |-> <<>>]
    /\ UNCHANGED <<cache, ninst, disk>>
    /\ UNCHANGED <<callVars, stopwords, log, th, made, recVars, lateVars>>

InitApi ==
    /\ ApiIdle
    /\ FactoryIdle
    /\ RecorderIdle
    /\ CallIdle
    /\ CallsIdle
    /\ ThreadsIdle
    /\ LateIdle
    /\ stopwords = STOPWORDS

NextApi ==
    \/ \E file \in Uploads : \E name \in RecognizerNames :
       \E ctor \in ApiCtorOutcomes : \E trans \in TranscribeOutcomes :
           \/ use_case_transcribe(file, name, ctor, trans)
           \/ use_case_live_transcribe_chunk(file, name, ctor, trans)
           \/ \E n \in {1, 20} :
                  use_case_meeting_minutes(file, name, n, ctor, trans)
    \/ \E endpoint \in {"transcribe", "live-transcribe", "meeting-minutes"} :
           RejectRequest(endpoint)

\* ------------------------------------------------------------------------
\* AudioRecorder
\* ------------------------------------------------------------------------

\* the calls of start() and stop() in one run
MaxRecCalls == 4

\* the blocks the device delivers in one run
MaxFrames == 2

\* the output paths: the one of the GUI and another
WavPaths == {"recordings/demo.wav", "out.wav"}

\* the device in start(): it works, sd.InputStream(...) raises, or
\* stream.start() raises
DeviceOutcomes == {"ok", "InputStream", "start"}

\* writing the WAV file in stop(): it works, or mkdir / wave.open raises
WriteOutcomes == {"ok", "OSError"}

\* a call and its outcome
Call(op, io, exc, returned, path) ==
    [op |-> op, io |-> io, raised |-> exc, returned |-> returned,
     path |-> path]

\* an input stream the device has just made
NewStream(started) ==
    [started |-> started, stopped |-> FALSE, closed |-> FALSE]

\* start() from self._frames.clear() to self._stream.start()
StartStream(dev) ==
    /\ frames' = 0
    /\ UNCHANGED <<is_recording, wavs>>
    /\ IF dev = "InputStream"
       THEN /\ rec_log' = Append(rec_log,
                Call("start", dev, "PortAudioError", FALSE, "None"))
            /\ UNCHANGED <<stream, sd, rec_pc>>
       ELSE /\ sd' = Append(sd, NewStream(dev = "ok"))
            /\ stream' = Len(sd) + 1
            /\ IF dev = "start"
               THEN /\ rec_log' = Append(rec_log,
                        Call("start", dev, "PortAudioError", FALSE, "None"))
                    /\ UNCHANGED rec_pc
               ELSE /\ rec_log' = Append(rec_log,
                        Call("start", dev, "none", FALSE, "None"))
                    /\ rec_pc' = "started"

\* start() up to the return of self._stream.start(), on the recorder
StartCall(dev) ==
    /\ rec_pc = "idle"
    /\ Len(rec_log) < MaxRecCalls
    /\ IF is_recording
       THEN /\ dev = "ok"
            /\ rec_log' = Append(rec_log,
                   Call("start", dev, "RuntimeError", FALSE, "None"))
            /\ UNCHANGED <<is_recording, stream, frames, sd, wavs, rec_pc>>
       ELSE StartStream(dev)

\* start() without its first two lines
start_unguarded(dev) ==
    /\ rec_pc = "idle"
    /\ Len(rec_log) < MaxRecCalls
    /\ StartStream(dev)
    /\ UNCHANGED <<callVars, stopwords, log, th, made, apiVars, lateVars>>

\* AudioRecorder.start() up to the return of self._stream.start()
start(dev) ==
    /\ StartCall(dev)
    /\ UNCHANGED <<callVars, stopwords, log, th, made, apiVars, lateVars>>

\* the end of start(), on the recorder
StartReturn ==
    /\ rec_pc = "started"
    /\ is_recording' = TRUE
    /\ rec_pc' = "idle"
    /\ rec_log' = [rec_log EXCEPT ![Len(rec_log)].returned = TRUE]
    /\ UNCHANGED <<stream, frames, sd, wavs>>

\* the end of start(): self._is_recording = True, and the return
start_set_recording ==
    /\ StartReturn
    /\ UNCHANGED <<callVars, stopwords, log, th, made, apiVars, lateVars>>

\* _callback, called by a started stream with a block of input
callback ==
    /\ stream # 0
    /\ sd[stream].started
    /\ ~sd[stream].stopped
    /\ frames < MaxFrames
    /\ frames' = IF is_recording THEN frames + 1 ELSE frames
    /\ UNCHANGED <<is_recording, stream, sd, wavs, rec_pc, rec_log>>
    /\ UNCHANGED <<callVars, stopwords, log, th, made, apiVars, lateVars>>

\* stop() from self._is_recording = False to self._stream = None
StopStream ==
    /\ is_recording' = FALSE
    /\ sd' = IF stream # 0
             THEN [sd EXCEPT ![stream].stopped = TRUE,
                             ![stream].closed = TRUE]
             ELSE sd
    /\ stream' = 0

\* stop() from np.concatenate to the return
WriteWav(output_path, wr) ==
    IF wr = "OSError"
    THEN /\ rec_log' = Append(rec_log,
             Call("stop", wr, "OSError", FALSE, "None"))
         /\ UNCHANGED wavs
    ELSE /\ wavs' = {w \in wavs : w.path # output_path}
                    \cup {[path |-> output_path, blocks |-> frames]}
         /\ rec_log' = Append(rec_log,
                Call("stop", wr, "none", TRUE, output_path))

\* the output path and the file system when stop() does not come to them
NoWrite(output_path, wr) ==
    /\ output_path = "recordings/demo.wav"
    /\ wr = "ok"

\* stop(output_path), on the recorder and the files
StopCall(output_path, wr) ==
    /\ rec_pc = "idle"
    /\ Len(rec_log) < MaxRecCalls
    /\ IF ~is_recording
       THEN /\ NoWrite(output_path, wr)
            /\ rec_log' = Append(rec_log,
                   Call("stop", wr, "RuntimeError", FALSE, "None"))
            /\ UNCHANGED <<is_recording, stream, sd, wavs>>
       ELSE /\ StopStream
            /\ IF frames = 0
               THEN /\ NoWrite(output_path, wr)
                    /\ rec_log' = Append(rec_log,
                           Call("stop", wr, "ValueError", FALSE, "None"))
                    /\ UNCHANGED wavs
               ELSE WriteWav(output_path, wr)
    /\ UNCHANGED <<frames, rec_pc>>

\* stop() that looks at the frames before it stops the stream
stop_frames_first(output_path, wr) ==
    /\ rec_pc = "idle"
    /\ Len(rec_log) < MaxRecCalls
    /\ IF ~is_recording
       THEN /\ NoWrite(output_path, wr)
            /\ rec_log' = Append(rec_log,
                   Call("stop", wr, "RuntimeError", FALSE, "None"))
            /\ UNCHANGED <<is_recording, stream, sd, wavs>>
       ELSE IF frames = 0
            THEN /\ NoWrite(output_path, wr)
                 /\ rec_log' = Append(rec_log,
                        Call("stop", wr, "ValueError", FALSE, "None"))
                 /\ UNCHANGED <<is_recording, stream, sd, wavs>>
            ELSE /\ StopStream
                 /\ WriteWav(output_path, wr)
    /\ UNCHANGED <<frames, rec_pc>>
    /\ UNCHANGED <<callVars, stopwords, log, th, made, apiVars, lateVars>>

\* AudioRecorder.stop(output_path)
stop(output_path, wr) ==
    /\ StopCall(output_path, wr)
    /\ UNCHANGED <<callVars, stopwords, log, th, made, apiVars, lateVars>>

InitRecorder ==
    /\ RecorderIdle
    /\ FactoryIdle
    /\ ApiIdle
    /\ CallIdle
    /\ CallsIdle
    /\ ThreadsIdle
    /\ LateIdle
    /\ stopwords = STOPWORDS

NextRecorder ==
    \/ \E dev \in DeviceOutcomes : start(dev)
    \/ start_set_recording
    \/ callback
    \/ \E output_path \in WavPaths : \E wr \in WriteOutcomes :
           stop(output_path, wr)

\* ------------------------------------------------------------------------
\* WhisperTranscriber
\* ------------------------------------------------------------------------

\* nothing has run in the summariser, the factory, the API or the recorder
EarlyIdle ==
    /\ CallIdle
    /\ CallsIdle
    /\ ThreadsIdle
    /\ stopwords = STOPWORDS
    /\ FactoryIdle
    /\ ApiIdle
    /\ RecorderIdle

\* the calls of transcribe() on one instance
MaxTranscribes == 4

\* whisper.load_model: it returns a model or raises
LoadOutcomes == {"ok", "OSError"}

\* model.transcribe: a result with a text, a result without the key
\* "text", or an exception
ModelOutcomes == {"text", "no text", "ValueError"}

\* the text of a result
WhisperText == <<" ", "h", "i", " ">>

\* a call of transcribe() and its outcome: whether the path existed, whether
\* whisper.load_model was called, the exception and the returned text
Transcribed(exists, loading, exc, text) ==
    [exists |-> exists, loading |-> loading, raised |-> exc, text |-> text]

\* _ensure_model_loaded without its test of self._model
ensure_model_loaded_always(load) ==
    IF load = "ok"
    THEN [called |-> TRUE, raised |-> "none",
          model |-> wt_loads + 1, loads |-> wt_loads + 1]
    ELSE [called |-> TRUE, raised |-> load,
          model |-> wt_model, loads |-> wt_loads]

\* _ensure_model_loaded(): whether whisper.load_model was called, what it
\* raised, and self._model and the number of loaded models afterwards
ensure_model_loaded(load) ==
    IF wt_model = 0
    THEN IF load = "ok"
         THEN [called |-> TRUE, raised |-> "none",
               model |-> wt_loads + 1, loads |-> wt_loads + 1]
         ELSE [called |-> TRUE, raised |-> load,
               model |-> wt_model, loads |-> wt_loads]
    ELSE [called |-> FALSE, raised |-> "none",
          model |-> wt_model, loads |-> wt_loads]

\* the inputs a call of transcribe() comes to read
TranscribeReads(exists, load, run) ==
    /\ ~exists => load = "ok" /\ run = "text"
    /\ (exists /\ wt_model # 0) => load = "ok"
    /\ (exists /\ wt_model = 0 /\ load # "ok") => run = "text"

\* transcribe(audio_path), on the transcriber
TranscribeCall(exists, load, run) ==
    /\ Len(wt_log) < MaxTranscribes
    /\ TranscribeReads(exists, load, run)
    /\ IF ~exists
       THEN /\ wt_log' = Append(wt_log,
                Transcribed(exists, FALSE, "FileNotFoundError", <<>>))
            /\ UNCHANGED <<wt_model, wt_loads>>
       ELSE LET e == ensure_model_loaded(load)
            IN  /\ wt_model' = e.model
                /\ wt_loads' = e.loads
                /\ wt_log' = Append(wt_log,
                       IF e.raised # "none"
                       THEN Transcribed(exists, e.called, e.raised, <<>>)
                       ELSE IF run = "ValueError"
                       THEN Transcribed(exists, e.called, "RuntimeError",
                                        <<>>)
                       ELSE IF run = "no text"
                       THEN Transcribed(exists, e.called, "none",
                                        Strip(<<>>))
                       ELSE Transcribed(exists, e.called, "none",
                                        Strip(WhisperText)))

\* WhisperTranscriber.transcribe(audio_path)
transcribe(exists, load, run) ==
    /\ TranscribeCall(exists, load, run)
    /\ UNCHANGED <<earlyVars, cliVars, guiVars, ffVars>>

InitTranscriber ==
    /\ TranscriberIdle
    /\ CliIdle
    /\ GuiIdle
    /\ ConvertIdle
    /\ EarlyIdle

NextTranscriber ==
    \E exists \in BOOLEAN : \E load \in LoadOutcomes :
    \E run \in ModelOutcomes :
        transcribe(exists, load, run)

\* ------------------------------------------------------------------------
\* The command-line use cases
\* ------------------------------------------------------------------------

\* the takes of one run of the live use case
MaxTakes == 2

\* the three use cases, by their menu keys
UseCases == {"1", "2", "3"}

\* source.get_audio(): a TempPath, or an exception of the source
AudioOutcomes == {"ok", "FileNotFoundError", "RuntimeError"}

\* recognizer.transcribe_wav: a transcript, or an exception
WavOutcomes == {"ok", "FileNotFoundError", "AudioProcessingError"}

\* the transcripts of a recognizer
WavTexts == {<<>>, <<" ">>, ExHello}

\* path.unlink(missing_ok=True): done, or an OSError
UnlinkOutcomes == {"ok", "OSError"}

\* TempPath(path, delete_on_close), and the calls of its cleanup()
TempPath(path, delete_on_close) ==
    [path |-> path, delete_on_close |-> delete_on_close, cleanups |-> 0]

\* what run() printed after the try
Printed(what, text) == [what |-> what, text |-> text]

\* temp = source.get_audio(), the statement before the try
GetAudio(audio, delete_on_close) ==
    /\ cli_pc = "prompt"
    /\ Len(cli_temps) < MaxTakes
    /\ IF audio = "ok"
       THEN /\ cli_temps' = Append(cli_temps,
                TempPath(Len(cli_temps) + 1, delete_on_close))
            /\ cli_disk' = cli_disk \cup {Len(cli_temps) + 1}
            /\ cli_pc' = "try"
            /\ UNCHANGED cli_exc
       ELSE /\ delete_on_close
            /\ cli_exc' = audio
            /\ cli_pc' = "raised"
            /\ UNCHANGED <<cli_temps, cli_disk>>
    /\ UNCHANGED <<cli_case, cli_text, cli_out>>
    /\ UNCHANGED <<earlyVars, wtVars, guiVars, ffVars>>

\* the live use case: the user types q
Quit ==
    /\ cli_case = "2"
    /\ cli_pc = "prompt"
    /\ cli_pc' = "done"
    /\ UNCHANGED <<cli_case, cli_temps, cli_disk, cli_exc, cli_text, cli_out>>
    /\ UNCHANGED <<earlyVars, wtVars, guiVars, ffVars>>

\* the try without its finally: an exception leaves run() at once
TranscribeWavNoFinally(wav, text) ==
    /\ cli_pc = "try"
    /\ IF wav = "ok"
       THEN /\ cli_text' = text
            /\ cli_pc' = "finally"
            /\ UNCHANGED cli_exc
       ELSE /\ text = <<>>
            /\ cli_exc' = wav
            /\ cli_pc' = "raised"
            /\ UNCHANGED cli_text
    /\ UNCHANGED <<cli_case, cli_temps, cli_disk, cli_out>>
    /\ UNCHANGED <<earlyVars, wtVars, guiVars, ffVars>>

\* the body of the try: recognizer.transcribe_wav(temp.path)
TranscribeWav(wav, text) ==
    /\ cli_pc = "try"
    /\ IF wav = "ok"
       THEN /\ cli_text' = text
            /\ UNCHANGED cli_exc
       ELSE /\ text = <<>>
            /\ cli_exc' = wav
            /\ UNCHANGED cli_text
    /\ cli_pc' = "finally"
    /\ UNCHANGED <<cli_case, cli_temps, cli_disk, cli_out>>
    /\ UNCHANGED <<earlyVars, wtVars, guiVars, ffVars>>

\* the finally: temp.cleanup(), that is TempPath.cleanup
Cleanup(unlink) ==
    /\ cli_pc = "finally"
    /\ LET k == Len(cli_temps)
           temp == cli_temps[k]
       IN  /\ cli_temps' = [cli_temps EXCEPT ![k].cleanups = @ + 1]
           /\ IF temp.delete_on_close
              THEN IF unlink = "ok"
                   THEN /\ cli_disk' = cli_disk \ {temp.path}
                        /\ UNCHANGED cli_exc
                   ELSE /\ cli_exc' = unlink
                        /\ UNCHANGED cli_disk
              ELSE /\ unlink = "ok"
                   /\ UNCHANGED <<cli_disk, cli_exc>>
    /\ cli_pc' = IF cli_exc' # "none" THEN "raised" ELSE "print"
    /\ UNCHANGED <<cli_case, cli_text, cli_out>>
    /\ UNCHANGED <<earlyVars, wtVars, guiVars, ffVars>>

\* the statements of run() after the try
Report ==
    /\ cli_pc = "print"
    /\ IF cli_case = "3"
       THEN cli_out' = IF Strip(cli_text) = <<>>
                       THEN Printed("nothing to summarise", <<>>)
                       ELSE Printed("minutes",
                                format_meeting_minutes(cli_text, 6).value)
       ELSE cli_out' = IF cli_text = <<>>
                       THEN Printed("no speech recognised", <<>>)
                       ELSE Printed("transcript", cli_text)
    /\ cli_pc' = IF cli_case = "2" THEN "prompt" ELSE "done"
    /\ UNCHANGED <<cli_case, cli_temps, cli_disk, cli_exc, cli_text>>
    /\ UNCHANGED <<earlyVars, wtVars, guiVars, ffVars>>

\* run() of one of the use cases has been entered
InitCli ==
    /\ cli_case \in UseCases
    /\ cli_pc = "prompt"
    /\ cli_temps = <<>>
    /\ cli_disk = {}
    /\ cli_exc = "none"
    /\ cli_text = <<>>
    /\ cli_out = Printed("none", <<>>)
    /\ TranscriberIdle
    /\ GuiIdle
    /\ ConvertIdle
    /\ EarlyIdle

NextCli ==
    \/ \E audio \in AudioOutcomes : \E delete_on_close \in BOOLEAN :
           GetAudio(audio, delete_on_close)
    \/ Quit
    \/ \E wav \in WavOutcomes : \E text \in WavTexts :
           TranscribeWav(wav, text)
    \/ \E unlink \in UnlinkOutcomes : Cleanup(unlink)
    \/ Report

\* ------------------------------------------------------------------------
\* The GUI use case
\* ------------------------------------------------------------------------

\* the file the GUI records to
DemoWav == "recordings/demo.wav"

\* the parts of the program the GUI does not use
guiRest ==
    <<callVars, stopwords, log, th, made, apiVars, cliVars, ffVars>>

\* what the worker hands to _on_transcription_complete
Transcription(c) ==
    IF c.raised # "none"
    THEN [what |-> "error", text |-> <<>>]
    ELSE [what |-> "transcription", text |-> c.text]

\* a click on the record button while no recording is in progress:
\* _start_recording up to the return of the stream's start()
ClickStart(dev) ==
    /\ gui_button.state = "normal"
    /\ ~is_recording
    /\ StartCall(dev)
    /\ gui_status' = IF rec_log'[Len(rec_log')].raised = "RuntimeError"
                     THEN "Recording is already in progress."
                     ELSE gui_status
    /\ UNCHANGED <<gui_button, gui_progress, gui_output, gui_workers,
                   gui_after>>
    /\ UNCHANGED <<guiRest, wtVars>>

\* the rest of _start_recording: start() returns, the button changes
StartedRecording ==
    /\ StartReturn
    /\ gui_button' = [gui_button EXCEPT !.text = "Stop & Transcribe"]
    /\ gui_status' = "Recording... Speak now."
    /\ gui_output' = [what |-> "none", text |-> <<>>]
    /\ UNCHANGED <<gui_progress, gui_workers, gui_after>>
    /\ UNCHANGED <<guiRest, wtVars>>

\* what _stop_and_transcribe does after recorder.stop, with or without
\* the line that disables the button
AfterStop(disable) ==
    LET c == rec_log'[Len(rec_log')]
    IN  IF c.raised \in {"RuntimeError", "ValueError"}
        THEN /\ gui_status' = c.raised
             /\ gui_button' = [gui_button EXCEPT !.text = "Start Recording"]
             /\ UNCHANGED <<gui_progress, gui_output, gui_workers, gui_after>>
        ELSE IF c.raised # "none"
        THEN UNCHANGED guiVars
        ELSE /\ gui_status' = "Transcribing audio..."
             /\ gui_button' = IF disable
                              THEN [gui_button EXCEPT !.state = "disabled"]
                              ELSE gui_button
             /\ gui_progress' = TRUE
             /\ gui_workers' = Append(gui_workers,
                    [pc |-> "started", path |-> c.path,
                     transcription |-> [what |-> "none", text |-> <<>>]])
             /\ UNCHANGED <<gui_output, gui_after>>

\* _stop_and_transcribe that leaves the button enabled
ClickStopEnabled(wr) ==
    /\ gui_button.state = "normal"
    /\ is_recording
    /\ StopCall(DemoWav, wr)
    /\ AfterStop(FALSE)
    /\ UNCHANGED <<guiRest, wtVars>>

\* a click on the record button while a recording is in progress:
\* _stop_and_transcribe
ClickStop(wr) ==
    /\ gui_button.state = "normal"
    /\ is_recording
    /\ StopCall(DemoWav, wr)
    /\ AfterStop(TRUE)
    /\ UNCHANGED <<guiRest, wtVars>>

\* _transcribe_async without its except clause: an exception ends the thread
WorkerTranscribeUncaught(i, load, run) ==
    /\ gui_workers[i].pc = "started"
    /\ TranscribeCall(\E w \in wavs : w.path = gui_workers[i].path, load, run)
    /\ gui_workers' = [gui_workers EXCEPT ![i] =
           [pc |-> IF wt_log'[Len(wt_log')].raised # "none"
                   THEN "exit" ELSE "transcribed",
            path |-> @.path,
            transcription |-> Transcription(wt_log'[Len(wt_log')])]]
    /\ UNCHANGED <<gui_button, gui_progress, gui_status, gui_output,
                   gui_after>>
    /\ UNCHANGED <<guiRest, recVars>>

\* _transcribe_async, the try statement: the worker transcribes the file
WorkerTranscribe(i, load, run) ==
    /\ gui_workers[i].pc = "started"
    /\ TranscribeCall(\E w \in wavs : w.path = gui_workers[i].path, load, run)
    /\ gui_workers' = [gui_workers EXCEPT ![i] =
           [pc |-> "transcribed", path |-> @.path,
            transcription |-> Transcription(wt_log'[Len(wt_log')])]]
    /\ UNCHANGED <<gui_button, gui_progress, gui_status, gui_output,
                   gui_after>>
    /\ UNCHANGED <<guiRest, recVars>>

\* _transcribe_async, its last line: root.after(0, ...), and the thread ends
WorkerPost(i) ==
    /\ gui_workers[i].pc = "transcribed"
    /\ gui_after' = Append(gui_after, gui_workers[i].transcription)
    /\ gui_workers' = [gui_workers EXCEPT ![i].pc = "exit"]
    /\ UNCHANGED <<gui_button, gui_progress, gui_status, gui_output>>
    /\ UNCHANGED <<guiRest, recVars, wtVars>>

\* _on_transcription_complete, run by the main loop
OnTranscriptionComplete ==
    /\ gui_after # <<>>
    /\ rec_pc = "idle"
    /\ gui_after' = Tail(gui_after)
    /\ gui_progress' = FALSE
    /\ gui_button' = [state |-> "normal", text |-> "Start Recording"]
    /\ gui_output' = IF Head(gui_after).what = "transcription"
                        /\ Head(gui_after).text = <<>>
                     THEN [what |-> "placeholder", text |-> <<>>]
                     ELSE Head(gui_after)
    /\ gui_status' = "Done. You can record again."
    /\ UNCHANGED gui_workers
    /\ UNCHANGED <<guiRest, recVars, wtVars>>

InitGui ==
    /\ GuiIdle
    /\ TranscriberIdle
    /\ CliIdle
    /\ ConvertIdle
    /\ EarlyIdle

\* the threads of the worker
WorkerSteps ==
    \/ \E i \in 1..Len(gui_workers) :
       \E load \in LoadOutcomes : \E run \in ModelOutcomes :
           WorkerTranscribe(i, load, run)
    \/ \E i \in 1..Len(gui_workers) : WorkerPost(i)

NextGui ==
    \/ \E dev \in DeviceOutcomes : ClickStart(dev)
    \/ StartedRecording
    \/ callback
    \/ \E wr \in WriteOutcomes : ClickStop(wr)
    \/ WorkerSteps
    \/ OnTranscriptionComplete

\* ------------------------------------------------------------------------
\* ensure_wav_mono and the file source
\* ------------------------------------------------------------------------

\* the calls of get_audio in one run
MaxConversions == 3

\* subprocess.run(["ffmpeg", ...]): exit code 0, a non-zero exit code, or
\* FileNotFoundError because there is no ffmpeg
FfmpegOutcomes == {"ok", "nonzero", "missing"}

\* ensure_wav_mono(src_path), its temporary file being number f on disk d:
\* the exception or the returned path, and the disk afterwards
ensure_wav_mono(exists, ffmpeg, f, d) ==
    IF ~exists
    THEN [raised |-> "FileNotFoundError", detail |-> "Audio file not found",
          path |-> 0, disk |-> d]
    ELSE IF ffmpeg = "missing"
    THEN [raised |-> "AudioProcessingError", detail |-> "ffmpeg not found",
          path |-> 0, disk |-> d \cup {f}]
    ELSE IF ffmpeg = "nonzero"
    THEN [raised |-> "AudioProcessingError",
          detail |-> "ffmpeg conversion failed",
          path |-> 0, disk |-> d \cup {f}]
    ELSE [raised |-> "none", detail |-> "none", path |-> f,
          disk |-> d \cup {f}]

\* FileAudioSource.get_audio(): the source file exists or not
get_audio(exists, ffmpeg) ==
    /\ Len(ff_log) < MaxConversions
    /\ ~exists => ffmpeg = "ok"
    /\ LET r == ensure_wav_mono(exists, ffmpeg, Len(ff_log) + 1, ff_disk)
       IN  /\ ff_disk' = r.disk
           /\ ff_log' = Append(ff_log,
                  [raised |-> r.raised, detail |-> r.detail,
                   temp |-> IF r.raised = "none"
                            THEN [path |-> r.path, delete_on_close |-> TRUE]
                            ELSE [path |-> 0, delete_on_close |-> FALSE]])
    /\ UNCHANGED <<earlyVars, wtVars, cliVars, guiVars>>

\* the caller's temp.cleanup() on the TempPath that call k returned
CallerCleanup(k) ==
    /\ ff_log[k].raised = "none"
    /\ ff_log[k].temp.delete_on_close
    /\ ff_log[k].temp.path \in ff_disk
    /\ ff_disk' = ff_disk \ {ff_log[k].temp.path}
    /\ UNCHANGED ff_log
    /\ UNCHANGED <<earlyVars, wtVars, cliVars, guiVars>>

InitConvert ==
    /\ ConvertIdle
    /\ TranscriberIdle
    /\ CliIdle
    /\ GuiIdle
    /\ EarlyIdle

NextConvert ==
    \/ \E exists \in BOOLEAN : \E ffmpeg \in FfmpegOutcomes :
           get_audio(exists, ffmpeg)
    \/ \E k \in 1..Len(ff_log) : CallerCleanup(k)

Next == FormatMeetingMinutes

Spec == Init /\ [][Next]_vars

SpecScore == InitScore /\ [][Next]_vars

SpecCalls == InitCalls /\ [][NextCalls]_vars

SpecThreads == InitThreads /\ [][NextThreads]_vars

SpecFactory == InitFactory /\ [][NextFactory]_vars

SpecApi == InitApi /\ [][NextApi]_vars

SpecRecorder == InitRecorder /\ [][NextRecorder]_vars

SpecTranscriber == InitTranscriber /\ [][NextTranscriber]_vars

SpecCli == InitCli /\ [][NextCli]_vars

SpecGui == InitGui /\ [][NextGui]_vars

SpecConvert == InitConvert /\ [][NextConvert]_vars

\* the worker threads run, and the main loop runs the callbacks posted to it
SpecGuiFair ==
    /\ SpecGui
    /\ WF_vars(WorkerSteps)
    /\ WF_vars(OnTranscriptionComplete)

\* ------------------------------------------------------------------------
\* Vocabulary of the properties
\* ------------------------------------------------------------------------

Returned == pc = "returned"

\* a str: a sequence of characters
IsStr(s) == s \in Seq(STRING)

IsBlank(s) == \A k \in DOMAIN s : s[k] \in Whitespace

\* s without its whitespace characters
RECURSIVE NoWhitespace(_)
NoWhitespace(s) ==
    IF s = <<>> THEN <<>>
    ELSE IF Head(s) \in Whitespace THEN NoWhitespace(Tail(s))
    ELSE <<Head(s)>> \o NoWhitespace(Tail(s))

\* the strings of a list, one after the other
RECURSIVE Concat(_)
Concat(l) == IF l = <<>> THEN <<>> ELSE Head(l) \o Concat(Tail(l))

\* the 0-based transcript positions of the sentences, and of the selected ones
Positions == 0..(Len(sentences) - 1)
Selected == {Idx(top[k]) : k \in 1..Len(top)}

\* the score of the sentence at a position
ScoreAt(j) == sentence_score(sentences[j + 1])

Min(a, b) == IF a <= b THEN a ELSE b

\* the lines of the document as the specification prints them
DocTitle ==
    <<"#", " ", "M", "e", "e", "t", "i", "n", "g", " ", "m", "i", "n", "u",
    "t", "e", "s">>

DocKeyPoints ==
    <<"#", "#", " ", "K", "e", "y", " ", "p", "o", "i", "n", "t", "s">>

DocActionItems ==
    <<"#", "#", " ", "A", "c", "t", "i", "o", "n", " ", "i", "t", "e", "m",
    "s", " ", "(", "h", "e", "u", "r", "i", "s", "t", "i", "c", ")">>

DocNote ==
    <<"_", "A", "u", "t", "o", "-", "g", "e", "n", "e", "r", "a", "t", "e",
    "d", " ", "f", "r", "o", "m", " ", "i", "m", "p", "o", "r", "t", "a",
    "n", "t", " ", "s", "e", "n", "t", "e", "n", "c", "e", "s", ";", " ",
    "a", "d", "d", " ", "o", "w", "n", "e", "r", "s", "/", "d", "a", "t",
    "e", "s", " ", "m", "a", "n", "u", "a", "l", "l", "y", ".", "_">>

DocBullet ==
    <<"-", " ">>

DocCheck ==
    <<"-", " ", "[", " ", "]", " ", "(", "O", "w", "n", "e", "r", "?", ")",
    " ">>

NL == <<"\n">>

\* each string of a list behind a prefix and closed by a newline
RECURSIVE PrefixedLines(_, _)
PrefixedLines(prefix, l) ==
    IF l = <<>> THEN <<>>
    ELSE prefix \o Head(l) \o NL \o PrefixedLines(prefix, Tail(l))

\* ------------------------------------------------------------------------
\* C1
\* ------------------------------------------------------------------------

\* C1: format_meeting_minutes is total: for every transcript and every
\* integer max_sentences, positive, zero or negative, the call returns a
\* string and raises nothing.
C1_Total == Returned => raised = "none" /\ IsStr(result)

\* a call with more sentences asked for than the transcript has has returned
C1_Witness ==
    /\ Returned
    /\ sentences # <<>>
    /\ max_sentences > Len(sentences)
    /\ raised = "none"

\* ------------------------------------------------------------------------
\* C2
\* ------------------------------------------------------------------------

\* C2: a transcript that segments into zero sentences, the empty string and
\* every whitespace-only string among them, gives exactly the literal
\* "No content to summarise.", whatever max_sentences is.
C2_NoSentencesFallback ==
    Returned =>
        /\ IsBlank(transcript) => sentences = <<>>
        /\ sentences = <<>> => result = FALLBACK

\* a whitespace-only transcript, not the empty one, has been summarised
C2_Witness ==
    /\ Returned
    /\ transcript # <<>>
    /\ IsBlank(transcript)
    /\ max_sentences >= 1
    /\ result = FALLBACK

\* ------------------------------------------------------------------------
\* C3
\* ------------------------------------------------------------------------

\* C3: for every transcript and every max_sentences <= 0, zero and every
\* negative integer, the call returns the fallback string and selects no
\* sentence.
C3_NonPositiveFallback ==
    Returned /\ max_sentences <= 0 =>
        result = FALLBACK /\ highlights = <<>>

\* ------------------------------------------------------------------------
\* C4
\* ------------------------------------------------------------------------

\* C4: with k >= 1 sentences and max_sentences >= 1 exactly
\* min(max_sentences, k) sentences are selected; when max_sentences >= k the
\* key points are all the sentences of the transcript.
C4_SelectsMin ==
    Returned /\ sentences # <<>> /\ max_sentences >= 1 =>
        /\ Len(highlights) = Min(max_sentences, Len(sentences))
        /\ Cardinality(Selected) = Min(max_sentences, Len(sentences))
        /\ max_sentences >= Len(sentences) => highlights = sentences

\* a transcript with more sentences than asked for has been cut down
C4_Witness ==
    /\ Returned
    /\ max_sentences >= 1
    /\ Len(sentences) > max_sentences
    /\ Len(highlights) = max_sentences

\* ------------------------------------------------------------------------
\* C5
\* ------------------------------------------------------------------------

\* C5: for max_sentences >= 1 the selected sentences are the highest-scoring
\* ones: no unselected sentence scores strictly higher than a selected one; a
\* sentence scoring 0 is selected only when fewer than max_sentences
\* sentences score above 0; of "This is a test. It works well. Short." with
\* max_sentences = 2 the first two sentences are selected.
C5_HighestSelected ==
    Returned /\ max_sentences >= 1 =>
        /\ \A i \in Selected : \A j \in Positions \ Selected :
               ScoreAt(j) <= ScoreAt(i)
        /\ (\E i \in Selected : ScoreAt(i) = 0) =>
               Cardinality({j \in Positions : ScoreAt(j) > 0}) < max_sentences
        /\ transcript = ExTest /\ max_sentences = 2 => Selected = {0, 1}

\* a later sentence was selected over an earlier one that scores lower
C5_Witness ==
    /\ Returned
    /\ max_sentences >= 1
    /\ \E i \in Selected : \E j \in Positions \ Selected :
           j < i /\ ScoreAt(j) < ScoreAt(i)

\* ------------------------------------------------------------------------
\* C6
\* ------------------------------------------------------------------------

\* C6: ties in score go to the earlier sentence: when the sentence at
\* position i is selected and a sentence at an earlier position j has the
\* same score, the sentence at j is selected too.
C6_TiesByPosition ==
    Returned =>
        \A i \in Selected : \A j \in Positions :
            j < i /\ ScoreAt(j) = ScoreAt(i) => j \in Selected

\* of two sentences with the same score only the earlier one was selected
C6_Witness ==
    /\ Returned
    /\ \E j \in Selected : \E i \in Positions \ Selected :
           j < i /\ ScoreAt(j) = ScoreAt(i)

\* ------------------------------------------------------------------------
\* C7
\* ------------------------------------------------------------------------

\* C7: the key points appear in strictly ascending transcript position,
\* whatever the order of their scores: each key point is the sentence at its
\* position, and the positions grow along the list.
C7_Chronological ==
    Returned =>
        /\ Len(highlights) = Len(top)
        /\ \A k \in 1..Len(top) :
               /\ Idx(top[k]) \in Positions
               /\ highlights[k] = sentences[Idx(top[k]) + 1]
        /\ \A k \in 1..(Len(top) - 1) : Idx(top[k]) < Idx(top[k + 1])

\* two sentences were selected of which the later one scores higher
C7_Witness ==
    /\ Returned
    /\ Len(top) >= 2
    /\ \E k \in 1..(Len(top) - 1) : Score(top[k]) < Score(top[k + 1])

\* ------------------------------------------------------------------------
\* C8
\* ------------------------------------------------------------------------

\* C8: when a sentence is selected the document is exactly the title, a blank
\* line, the key-points heading, a blank line, one "- <sentence>" line per
\* selected sentence, a blank line, the action-items heading, a blank line,
\* the note, a blank line and one "- [ ] (Owner?) <sentence>" line per
\* selected sentence, the same sentences in the same order, with no newline
\* after the last line.
C8_Document ==
    Returned /\ highlights # <<>> =>
        result \o NL =
            DocTitle \o NL \o NL
            \o DocKeyPoints \o NL \o NL
            \o PrefixedLines(DocBullet, highlights)
            \o NL
            \o DocActionItems \o NL \o NL
            \o DocNote \o NL \o NL
            \o PrefixedLines(DocCheck, highlights)

\* a document with two different key points has been rendered
C8_Witness ==
    /\ Returned
    /\ Len(highlights) >= 2
    /\ highlights[1] # highlights[2]
    /\ result # FALLBACK

\* ------------------------------------------------------------------------
\* C9
\* ------------------------------------------------------------------------

\* the number of terminators in a string
NumTerminators(s) == Cardinality({k \in 1..Len(s) : s[k] \in Terminators})

\* C9: the segmenter closes a sentence at every '.', '?' or '!' and keeps
\* the terminator as the last character of that sentence: there is one
\* sentence per terminator of the transcript, plus at most an unterminated
\* last one, and a terminator is nowhere but at the end of a sentence; the
\* sentences are trimmed and in transcript order; "A. B! C?" gives exactly
\* "A.", "B!", "C?".
C9_Segmenter ==
    Returned =>
        /\ \A k \in 1..Len(sentences) :
               LET s == sentences[k]
               IN  /\ s # <<>>
                   /\ s[1] \notin Whitespace
                   /\ s[Len(s)] \notin Whitespace
                   /\ \A c \in 1..(Len(s) - 1) : s[c] \notin Terminators
                   /\ k < Len(sentences) => s[Len(s)] \in Terminators
        /\ Cardinality({k \in 1..Len(sentences) :
               sentences[k][Len(sentences[k])] \in Terminators})
             = NumTerminators(transcript)
        /\ NoWhitespace(Concat(sentences)) = NoWhitespace(transcript)
        /\ transcript = ExABC =>
               sentences = << <<"A", ".">>, <<"B", "!">>, <<"C", "?">> >>

\* "A. B! C?" has been segmented
C9_Witness ==
    /\ Returned
    /\ transcript = ExABC
    /\ Len(sentences) = 3

\* ------------------------------------------------------------------------
\* C10
\* ------------------------------------------------------------------------

\* C10: a run of adjacent terminators adds no sentence of its own: "..."
\* segments into zero sentences, "Wait... go." into exactly two, and no
\* sentence consists only of terminator characters.
C10_TerminatorRunsDropped ==
    Returned =>
        /\ transcript = ExDots => sentences = <<>>
        /\ transcript = ExWait => Len(sentences) = 2
        /\ \A k \in 1..Len(sentences) :
               \E c \in 1..Len(sentences[k]) :
                   sentences[k][c] \notin Terminators

\* ------------------------------------------------------------------------
\* C11
\* ------------------------------------------------------------------------

\* a sentence that is its own stripped form and is not empty
IsTrimmed(s) == s # <<>> /\ Strip(s) = s

\* C11: every sentence the segmenter emits is non-empty, not whitespace-only
\* and without leading or trailing whitespace; it holds at most one
\* terminator, and that one as its last character; every sentence but the
\* last holds one.
C11_SentenceShape ==
    Returned =>
        \A k \in 1..Len(sentences) :
            /\ IsTrimmed(sentences[k])
            /\ ~IsBlank(sentences[k])
            /\ NumTerminators(sentences[k]) <= 1
            /\ NumTerminators(sentences[k]) = 1 =>
                   sentences[k][Len(sentences[k])] \in Terminators
            /\ NumTerminators(sentences[k]) = 0 => k = Len(sentences)

\* a transcript with whitespace around its sentences, the last one
\* unterminated, has been segmented
C11_Witness ==
    /\ Returned
    /\ Len(sentences) >= 2
    /\ NumTerminators(sentences[Len(sentences)]) = 0
    /\ transcript[Len(transcript)] \in Whitespace

\* ------------------------------------------------------------------------
\* C12
\* ------------------------------------------------------------------------

\* s without the whitespace at its start
RECURSIVE TrimLeft(_)
TrimLeft(s) ==
    IF s # <<>> /\ Head(s) \in Whitespace THEN TrimLeft(Tail(s)) ELSE s

\* s without the whitespace at its end
RECURSIVE TrimRight(_)
TrimRight(s) ==
    IF s # <<>> /\ s[Len(s)] \in Whitespace
    THEN TrimRight(SubSeq(s, 1, Len(s) - 1))
    ELSE s

\* C12: a transcript without terminal punctuation and with a non-whitespace
\* character is one sentence: for max_sentences >= 1 the document has exactly
\* one key-point bullet, its text the whole trimmed transcript, mirrored by
\* one action item; "Hello world" gives the bullet "Hello world".
C12_SingleSentence ==
    Returned /\ NumTerminators(transcript) = 0 /\ ~IsBlank(transcript)
             /\ max_sentences >= 1 =>
        LET whole == TrimRight(TrimLeft(transcript))
        IN  /\ highlights = <<whole>>
            /\ result = DocTitle \o NL \o NL
                        \o DocKeyPoints \o NL \o NL
                        \o DocBullet \o whole \o NL \o NL
                        \o DocActionItems \o NL \o NL
                        \o DocNote \o NL \o NL
                        \o DocCheck \o whole
            /\ transcript = ExHello => highlights = <<ExHello>>

\* "Hello world" has been summarised
C12_Witness ==
    /\ Returned
    /\ transcript = ExHello
    /\ max_sentences >= 1
    /\ result # FALLBACK

\* ------------------------------------------------------------------------
\* C13
\* ------------------------------------------------------------------------

\* s without the characters of a set at its start and at its end
RECURSIVE TrimSet(_, _)
TrimSet(s, chars) ==
    IF s = <<>> THEN s
    ELSE IF Head(s) \in chars THEN TrimSet(Tail(s), chars)
    ELSE IF s[Len(s)] \in chars THEN TrimSet(SubSeq(s, 1, Len(s) - 1), chars)
    ELSE s

\* the positions of s where a whitespace-separated token starts
TokenStarts(s) ==
    {k \in 1..Len(s) :
        s[k] \notin Whitespace /\ (k = 1 \/ s[k - 1] \in Whitespace)}

\* the token of s that starts at k: up to the next whitespace
TokenAt(s, k) ==
    LET ends == {m \in k..Len(s) : \A c \in k..m : s[c] \notin Whitespace}
    IN  SubSeq(s, k, CHOOSE m \in ends : \A o \in ends : o <= m)

\* w is one of the stop words, whatever the case of its letters
IsStopWord(w) ==
    \E sw \in STOPWORDS :
        Len(sw) = Len(w) /\ \A c \in 1..Len(w) : LowerChar(w[c]) = sw[c]

\* the tokens of s that count
CountedTokens(s) ==
    {k \in TokenStarts(s) :
        LET w == TrimSet(TokenAt(s, k), StripChars)
        IN  w # <<>> /\ ~IsStopWord(w)}

\* C13: the score of a sentence is the number of its whitespace-separated
\* tokens that, stripped of . , ! ? ; : ( ) [ ] at both ends and lower-cased,
\* are non-empty and not among the 30 stop words; the match ignores case, and
\* "The it is a" scores 0.
C13_Score ==
    /\ Cardinality(STOPWORDS) = 30
    /\ Returned =>
           /\ \A k \in 1..Len(scored) :
                  Score(scored[k]) = Cardinality(CountedTokens(Text(scored[k])))
           /\ transcript = ExStop => Score(scored[1]) = 0

\* a sentence with a capitalised stop word, a bare punctuation token and a
\* counted word has been scored
C13_Witness ==
    /\ Returned
    /\ \E k \in 1..Len(scored) :
           LET s == Text(scored[k])
           IN  /\ Score(scored[k]) = 1
               /\ Cardinality(TokenStarts(s)) = 2
               /\ \E c \in 1..Len(s) : s[c] \in {"A", ",", "("}

\* ------------------------------------------------------------------------
\* C14
\* ------------------------------------------------------------------------

\* the calls that have returned: the logged ones and, once it has returned,
\* the current one
ReturnedCalls ==
    {log[k] : k \in 1..Len(log)}
    \cup (IF Returned
          THEN {[transcript |-> transcript, max_sentences |-> max_sentences,
                 raised |-> raised, result |-> result]}
          ELSE {})

\* C14: format_meeting_minutes is deterministic: two calls with the same
\* transcript and max_sentences, wherever they stand in a sequence of other
\* calls, have the same outcome.
C14_Deterministic ==
    \A a \in ReturnedCalls : \A b \in ReturnedCalls :
        a.transcript = b.transcript /\ a.max_sentences = b.max_sentences =>
            a.raised = b.raised /\ a.result = b.result

\* a call has been repeated with a different call in between
C14_Witness ==
    /\ Returned
    /\ Len(log) = 2
    /\ log[1].transcript = transcript
    /\ log[1].max_sentences = max_sentences
    /\ log[2].transcript # transcript
    /\ log[1].result = result
    /\ result # FALLBACK

\* ------------------------------------------------------------------------
\* C15
\* ------------------------------------------------------------------------

\* C15: calls running side by side do not interfere: under every
\* interleaving a call that has returned has the result the same call has
\* when run alone, and no call writes the state the calls share: the
\* stop-word set stays as it was.
C15_NoInterference ==
    /\ stopwords = STOPWORDS
    /\ \A i \in Threads :
           th[i].pc = "returned" =>
               th[i].result =
                   format_meeting_minutes(th[i].transcript,
                                          th[i].max_sentences).value

\* a call has returned its document while another call, on another
\* transcript, has scored its sentences and not yet selected
C15_Witness ==
    \E i \in Threads : \E j \in Threads :
        /\ th[i].pc = "returned"
        /\ th[i].result # FALLBACK
        /\ th[j].pc = "selecting"
        /\ th[j].transcript # th[i].transcript

\* ------------------------------------------------------------------------
\* C18
\* ------------------------------------------------------------------------

\* two strings that differ at most in the case of their letters
SameIgnoringCase(a, b) ==
    Len(a) = Len(b) /\ \A k \in 1..Len(a) : LowerChar(a[k]) = LowerChar(b[k])

\* the backend class a given name stands for, "none" when for none
BackendFor(name) ==
    LET n == TrimRight(TrimLeft(name))
    IN  IF SameIgnoringCase(n, NameVosk) THEN "VoskSpeechRecognizer"
        ELSE IF SameIgnoringCase(n, NameWhisper) THEN "WhisperSpeechRecognizer"
        ELSE IF SameIgnoringCase(n, NameSpeechbrain)
        THEN "SpeechBrainSpeechRecognizer"
        ELSE "none"

\* C18: create_recognizer strips and lower-cases the name; for "vosk",
\* "whisper" or "speechbrain" it returns the matching backend; when that
\* backend's construction raises ImportError it raises
\* BackendNotAvailableError; for any other name it raises ValueError and
\* constructs nothing.
C18_Factory ==
    made.called =>
        LET cls == BackendFor(made.name)
        IN  /\ cls # "none" /\ made.ctor = "ok" =>
                   made.raised = "none" /\ made.value = cls
            /\ cls # "none" /\ made.ctor \in {"ImportError",
                                             "ModuleNotFoundError"} =>
                   made.raised = "BackendNotAvailableError"
            /\ cls # "none" => made.ran = cls
            /\ cls = "none" =>
                   made.raised = "ValueError" /\ made.ran = "none"
            /\ made.raised # "none" => made.value = "None"

\* a name in capitals with whitespace around it has given its backend
C18_Witness ==
    /\ made.called
    /\ made.name \notin RecognizerNames
    /\ made.name # Strip(made.name)
    /\ made.value = "WhisperSpeechRecognizer"

\* ------------------------------------------------------------------------
\* C16
\* ------------------------------------------------------------------------

\* the cache holds a recognizer for the name
IsCached(c, n) == \E k \in 1..Len(c) : c[k].key = n

\* the recognizer the cache holds for the name
CachedFor(c, n) == c[CHOOSE k \in 1..Len(c) : c[k].key = n].value

\* C16: the recognizer cache is construct-on-first-use, reuse thereafter:
\* once a recognizer has been constructed for a name it stays in the cache
\* unchanged, and every later request with that name that reaches the cache
\* is handed that same instance without create_recognizer being called.
C16_ConstructOnce ==
    [][\A n \in RecognizerNames :
           IsCached(cache, n) =>
               /\ IsCached(cache', n)
               /\ CachedFor(cache', n) = CachedFor(cache, n)
               /\ (reqs' = reqs + 1 /\ resp'.saved /\ resp'.recognizer = n) =>
                      /\ resp'.stt = CachedFor(cache, n)
                      /\ ~resp'.created]_vars

\* two recognizers have been constructed and the third request was handed
\* the first of them from the cache
C16_Witness ==
    /\ reqs = 3
    /\ ninst = 2
    /\ Len(cache) = 2
    /\ resp.saved
    /\ ~resp.created
    /\ resp.stt.id = 1

\* ------------------------------------------------------------------------
\* C17
\* ------------------------------------------------------------------------

\* C17: in each of the three use-case endpoints an exception raised after
\* the upload was saved leaves as an HTTPException, never raw:
\* FileNotFoundError and AudioProcessingError with status 400,
\* BackendNotAvailableError with 500, any other exception with 500.
C17_ExceptionsConverted ==
    resp.served /\ resp.saved /\ resp.cause # "none" =>
        /\ resp.endpoint \in {"transcribe", "live-transcribe",
                              "meeting-minutes"}
        /\ resp.kind = "HTTPException"
        /\ resp.cause \in {"FileNotFoundError", "AudioProcessingError"} =>
               resp.status = 400
        /\ resp.cause = "BackendNotAvailableError" => resp.status = 500
        /\ resp.cause \notin {"FileNotFoundError", "AudioProcessingError",
                              "BackendNotAvailableError"} =>
               resp.status = 500

\* the meeting-minutes endpoint has answered 400 to an AudioProcessingError
\* of a recognizer it had in the cache
C17_Witness ==
    /\ resp.served
    /\ resp.saved
    /\ resp.endpoint = "meeting-minutes"
    /\ resp.cause = "AudioProcessingError"
    /\ resp.status = 400
    /\ ~resp.created

\* ------------------------------------------------------------------------
\* C19
\* ------------------------------------------------------------------------

\* the step is the entry of a call of start() or stop()
IsCall == Len(rec_log') = Len(rec_log) + 1

\* the last call of a log
LastCall(l) == l[Len(l)]

\* the recorder's fields, the device and the files stay as they are
RecorderUntouched == UNCHANGED <<is_recording, stream, frames, sd, wavs>>

\* C19: over any sequence of calls, start() while a recording is in
\* progress raises RuntimeError and stop() while none is in progress raises
\* RuntimeError, and in both cases the recording flag, the stream and the
\* captured frames are left unchanged.
C19_Protocol ==
    [][IsCall =>
           /\ (LastCall(rec_log').op = "start" /\ is_recording) =>
                  /\ LastCall(rec_log').raised = "RuntimeError"
                  /\ RecorderUntouched
           /\ (LastCall(rec_log').op = "stop" /\ ~is_recording) =>
                  /\ LastCall(rec_log').raised = "RuntimeError"
                  /\ RecorderUntouched]_vars

\* both calls have been refused in one run, start() while a recording with
\* a captured block was in progress
C19_Witness ==
    /\ \E k \in 1..Len(rec_log) :
           rec_log[k].op = "start" /\ rec_log[k].raised = "RuntimeError"
    /\ \E k \in 1..Len(rec_log) :
           rec_log[k].op = "stop" /\ rec_log[k].raised = "RuntimeError"
    /\ frames > 0

\* ------------------------------------------------------------------------
\* C20
\* ------------------------------------------------------------------------

\* C20: stop() on an active recording that captured no frames raises
\* ValueError and writes no file, yet leaves the recorder idle
\* (is_recording false, the stream stopped, closed and cleared), so that
\* the start() that follows is not refused and succeeds when the device
\* does.
C20_EmptyStop ==
    [][IsCall =>
           /\ (LastCall(rec_log').op = "stop" /\ is_recording /\ frames = 0)
                  => /\ LastCall(rec_log').raised = "ValueError"
                     /\ wavs' = wavs
                     /\ ~is_recording'
                     /\ stream' = 0
                     /\ sd'[stream].stopped
                     /\ sd'[stream].closed
           /\ (/\ LastCall(rec_log').op = "start"
               /\ Len(rec_log) > 0
               /\ LastCall(rec_log).op = "stop"
               /\ LastCall(rec_log).raised = "ValueError")
                  => /\ LastCall(rec_log').raised # "RuntimeError"
                     /\ LastCall(rec_log').io = "ok" =>
                            /\ LastCall(rec_log').raised = "none"
                            /\ rec_pc' = "started"
                            /\ sd'[stream'].started]_vars

\* a recording without frames was stopped with ValueError and no file, and
\* the start() after it has returned with a new recording in progress
C20_Witness ==
    /\ Len(rec_log) >= 3
    /\ rec_log[2].op = "stop"
    /\ rec_log[2].raised = "ValueError"
    /\ rec_log[3].op = "start"
    /\ rec_log[3].returned
    /\ is_recording
    /\ wavs = {}
    /\ sd[1].closed

\* ------------------------------------------------------------------------
\* C21
\* ------------------------------------------------------------------------

\* C21: WhisperTranscriber loads its model lazily and at most once: the
\* model is not loaded at construction, a transcribe() call on a path that
\* does not exist raises FileNotFoundError without loading it, and over any
\* sequence of transcribe() calls on one instance the model is successfully
\* loaded at most once.
C21_LazyLoadOnce ==
    /\ wt_log = <<>> => wt_model = 0 /\ wt_loads = 0
    /\ \A k \in 1..Len(wt_log) :
           ~wt_log[k].exists =>
               /\ wt_log[k].raised = "FileNotFoundError"
               /\ ~wt_log[k].loading
    /\ wt_loads <= 1
    /\ wt_model # 0 <=> wt_loads = 1

\* a missing path was refused before any load, a load failed, and two later
\* calls transcribed with the one model that was loaded
C21_Witness ==
    /\ Len(wt_log) = 4
    /\ ~wt_log[1].exists
    /\ wt_log[2].loading /\ wt_log[2].raised = "OSError"
    /\ wt_log[3].loading /\ wt_log[3].raised = "none"
    /\ ~wt_log[4].loading /\ wt_log[4].raised = "none"
    /\ wt_log[4].text = <<"h", "i">>
    /\ wt_loads = 1

\* ------------------------------------------------------------------------
\* C22
\* ------------------------------------------------------------------------

\* run() stands outside the try statement of the TempPath it acquired last
OutsideTry == cli_pc \in {"prompt", "print", "done", "raised"}

\* C22: in every command-line use case, once source.get_audio() has
\* returned a TempPath its cleanup() is called exactly once before the next
\* audio is acquired or run() ends, whether transcribe_wav returns or
\* raises; cleanup deletes the file only when delete_on_close is true.
C22_CleanupOnce ==
    \A k \in 1..Len(cli_temps) :
        /\ cli_temps[k].cleanups <= 1
        /\ (k < Len(cli_temps) \/ OutsideTry) => cli_temps[k].cleanups = 1
        /\ cli_temps[k].cleanups = 0 => cli_temps[k].path \in cli_disk
        /\ ~cli_temps[k].delete_on_close => cli_temps[k].path \in cli_disk

\* the live use case has ended with the exception of its second
\* transcribe_wav: the second TempPath was cleaned up and deleted, the
\* first, not to be deleted, was cleaned up and kept
C22_Witness ==
    /\ cli_case = "2"
    /\ Len(cli_temps) = 2
    /\ cli_pc = "raised"
    /\ cli_exc = "AudioProcessingError"
    /\ cli_temps[1].cleanups = 1
    /\ ~cli_temps[1].delete_on_close
    /\ cli_temps[1].path \in cli_disk
    /\ cli_temps[2].cleanups = 1
    /\ cli_temps[2].delete_on_close
    /\ cli_temps[2].path \notin cli_disk

\* ------------------------------------------------------------------------
\* C23
\* ------------------------------------------------------------------------

\* the GUI is in the transcribing state that a successful
\* "Stop & Transcribe" puts it in
Transcribing == gui_button.state = "disabled"

\* what _on_transcription_complete leaves: the button enabled with the
\* label "Start Recording", the progress bar stopped
ReadyAgain ==
    /\ gui_button = [state |-> "normal", text |-> "Start Recording"]
    /\ ~gui_progress

\* C23: in the GUI every successful "Stop & Transcribe" is eventually
\* followed by _on_transcription_complete on the main thread, whether the
\* background transcription returns or raises: the record button is
\* eventually enabled again with the label "Start Recording" and the
\* progress bar stopped, so the GUI never stays in the transcribing state.
C23_CompletionFollows == Transcribing ~> ReadyAgain

\* the transcription of a recording raised, and the completion callback has
\* shown the error and given the button back
C23_Witness ==
    /\ Len(gui_workers) = 1
    /\ gui_workers[1].pc = "exit"
    /\ wt_log[Len(wt_log)].raised = "RuntimeError"
    /\ gui_after = <<>>
    /\ gui_output.what = "error"
    /\ ReadyAgain

\* ------------------------------------------------------------------------
\* C24
\* ------------------------------------------------------------------------

\* the worker threads that have not come to their end
InFlight(workers) == {i \in 1..Len(workers) : workers[i].pc # "exit"}

\* C24: in the GUI at most one transcription worker thread is in flight at
\* any time: while a worker runs the record button is disabled, so no
\* recording is started or stopped and the file recordings/demo.wav is
\* never rewritten while the worker is reading it.
C24_OneWorker ==
    [][/\ Cardinality(InFlight(gui_workers)) <= 1
       /\ Cardinality(InFlight(gui_workers')) <= 1
       /\ InFlight(gui_workers) # {} =>
              /\ gui_button.state = "disabled"
              /\ ~is_recording
              /\ UNCHANGED <<is_recording, rec_log, wavs>>]_vars

\* the worker of a second recording is in flight, after the first came to
\* its end, and the button is disabled
C24_Witness ==
    /\ Len(gui_workers) = 2
    /\ gui_workers[1].pc = "exit"
    /\ gui_workers[2].pc = "transcribed"
    /\ gui_button.state = "disabled"
    /\ \E w \in wavs : w.path = DemoWav

\* ------------------------------------------------------------------------
\* C25
\* ------------------------------------------------------------------------

\* C25: for every request to a use-case endpoint, any temporary file
\* created on disk for the upload no longer exists when the request
\* finishes, on every path: success, transcription error, and rejection of
\* the upload by _save_upload_to_temp (missing filename or empty content).
C25_NoTempFileLeft == resp.served => disk = {}

\* ------------------------------------------------------------------------
\* C26
\* ------------------------------------------------------------------------

\* C26: ensure_wav_mono either returns the path of a temporary WAV file that
\* the caller must delete, or raises FileNotFoundError, or
\* AudioProcessingError when ffmpeg is missing or exits non-zero, and then
\* leaves behind no temporary file that it created.
C26_NoFileLeftOnError ==
    \A k \in 1..Len(ff_log) :
        /\ ff_log[k].raised \in
               {"none", "FileNotFoundError", "AudioProcessingError"}
        /\ ff_log[k].raised = "none" => ff_log[k].temp.path = k
        /\ ff_log[k].raised # "none" => k \notin ff_disk

\* ------------------------------------------------------------------------
\* C27
\* ------------------------------------------------------------------------

\* the number of characters of a string that are not whitespace
NumInk(s) == Cardinality({k \in 1..Len(s) : s[k] \notin Whitespace})

\* the number of such characters in the first n strings of a list
RECURSIVE InkBefore(_, _)
InkBefore(l, n) ==
    IF n = 0 THEN 0 ELSE InkBefore(l, n - 1) + NumInk(l[n])

\* C27: segmentation loses no content: for every transcript, the emitted
\* sentences, concatenated in order and with all whitespace removed, are the
\* transcript with all whitespace removed; every non-whitespace character
\* belongs to exactly one sentence, and the characters keep their order:
\* sentence k holds exactly the characters that follow those of the
\* sentences before it.
C27_NoContentLost ==
    Returned /\ Strip(transcript) # <<>> =>
        LET ink == NoWhitespace(transcript)
            n   == Len(sentences)
        IN  /\ NoWhitespace(Concat(sentences)) = ink
            /\ InkBefore(sentences, n) = Len(ink)
            /\ \A k \in 1..n :
                   NoWhitespace(sentences[k])
                     = Sub(ink, InkBefore(sentences, k - 1) + 1,
                           InkBefore(sentences, k))

\* a transcript with terminators, inner and outer whitespace and an
\* unterminated tail has been segmented into two sentences
C27_Witness ==
    /\ Returned
    /\ transcript = <<" ", "a", ".", " ", "x">>
    /\ sentences = << <<"a", ".">>, <<"x">> >>

====
